---- MODULE Spec2Model ----
(***************************************************************************)
(* Model of the IFC importer (code/AssetLib/IFC/IFCLoader.cpp): the load   *)
(* pipeline of IFCImporter (model handle, containment map, materials,      *)
(* per-element meshes, spatial hierarchy and mesh assignment) and its pure *)
(* helpers (DecodeIFCString, GetOrCreateColorMaterial,                     *)
(* SplitMeshByMaterials).                                                  *)
(*                                                                         *)
(* Strings are sequences of tokens (one token per character where the      *)
(* character matters, one token per word otherwise); std::string::find is  *)
(* Find/Contains on such sequences.  Node pointers are node identifiers.   *)
(***************************************************************************)
EXTENDS Naturals, Integers, Sequences, FiniteSets, TLC

\* ------------------------------------------------------------------------
\* Bounds of the model
\* ------------------------------------------------------------------------
MaxPieces == 4

MaxColorCalls == 2

MaxLoads == 2

MaxElements == 2

MaxGeoms == 2

\* ------------------------------------------------------------------------
\* Generic helpers
\* ------------------------------------------------------------------------
Range(s) == {s[i] : i \in DOMAIN s}

SeqsUpTo(S, n) == UNION {[1..k -> S] : k \in 0..n}

Min2(a, b) == IF a < b THEN a ELSE b

Max2(a, b) == IF a > b THEN a ELSE b

\* std::string::find(pat, pos): smallest 1-based index >= pos at which pat
\* occurs in s, 0 for npos.
Find(s, pat, pos) ==
    LET hits == {i \in pos..(Len(s) - Len(pat) + 1) :
                    SubSeq(s, i, i + Len(pat) - 1) = pat}
    IN IF hits = {} THEN 0 ELSE CHOOSE i \in hits : \A j \in hits : i <= j

Contains(s, pat) == Find(s, pat, 1) # 0

Digits == <<"0", "1", "2", "3", "4", "5", "6", "7", "8", "9">>

RECURSIVE to_string(_)
\* std::to_string for unsigned integers
to_string(n) ==
    IF n < 10 THEN <<Digits[n + 1]>>
    ELSE to_string(n \div 10) \o <<Digits[(n % 10) + 1]>>

\* ------------------------------------------------------------------------
\* DecodeIFCString
\* ------------------------------------------------------------------------
BS == "\\"

\* the seven escape tokens, in the order of the seven replacement passes,
\* each with the UTF-8 bytes of its replacement
EscapeTable ==
    << [tok |-> <<BS, "S", BS, "d">>, rep |-> <<"xC3", "xA4">>],
       [tok |-> <<BS, "S", BS, "|">>, rep |-> <<"xC3", "xBC">>],
       [tok |-> <<BS, "S", BS, "_">>, rep |-> <<"xC3", "x9F">>],
       [tok |-> <<BS, "S", BS, "c">>, rep |-> <<"xC3", "xB6">>],
       [tok |-> <<BS, "S", BS, "D">>, rep |-> <<"xC3", "x84">>],
       [tok |-> <<BS, "S", BS, BS>>,  rep |-> <<"xC3", "x9C">>],
       [tok |-> <<BS, "S", BS, "C">>, rep |-> <<"xC3", "x96">>] >>

RECURSIVE ReplaceAllSkip4(_, _, _, _)
\* variant of the replacement loop that advances by the token length
ReplaceAllSkip4(s, tok, rep, pos) ==
    LET p == Find(s, tok, pos)
    IN IF p = 0 THEN s
       ELSE ReplaceAllSkip4(SubSeq(s, 1, p - 1) \o rep \o SubSeq(s, p + 4, Len(s)),
                            tok, rep, p + 4)

RECURSIVE ReplaceAll(_, _, _, _)
\* while ((pos = result.find(tok, pos)) != npos) { result.replace(pos, 4, rep); pos += 1; }
ReplaceAll(s, tok, rep, pos) ==
    LET p == Find(s, tok, pos)
    IN IF p = 0 THEN s
       ELSE ReplaceAll(SubSeq(s, 1, p - 1) \o rep \o SubSeq(s, p + 4, Len(s)),
                       tok, rep, p + 1)

RECURSIVE DecodePasses(_, _)
DecodePasses(s, k) ==
    IF k > Len(EscapeTable) THEN s
    ELSE DecodePasses(ReplaceAll(s, EscapeTable[k].tok, EscapeTable[k].rep, 1), k + 1)

DecodeIFCString(input) == DecodePasses(input, 1)

HasEscapeToken(s) == \E k \in DOMAIN EscapeTable : Contains(s, EscapeTable[k].tok)

\* the raw strings handed to the decoder: up to MaxPieces pieces, each a
\* single character or a whole escape token
DecodePieces == { <<BS>>, <<"S">>, <<"d">>, <<"C">>, <<"a">>,
                  EscapeTable[1].tok, EscapeTable[6].tok, EscapeTable[7].tok }

RECURSIVE Flatten(_)
Flatten(ss) == IF ss = << >> THEN << >> ELSE Head(ss) \o Flatten(Tail(ss))

RawStrings == {Flatten(ps) : ps \in SeqsUpTo(DecodePieces, MaxPieces)}

\* ------------------------------------------------------------------------
\* GetOrCreateColorMaterial
\* ------------------------------------------------------------------------
\* A colour channel value v in [0,1] is the integer c with v = c / 510, so
\* that v * 255 = c / 2 and the 256 levels and their midpoints are integers.
HexDigits == <<"0", "1", "2", "3", "4", "5", "6", "7", "8", "9",
               "A", "B", "C", "D", "E", "F">>

\* std::round(std::min(std::max(value * 255.0f, 0.0f), 255.0f)), round half up
RoundChannel(c) == (Min2(Max2(c, 0), 510) + 1) \div 2

\* the toHex lambda: two upper-case hex digits, zero filled
toHex(c) ==
    LET intValue == RoundChannel(c)
    IN <<HexDigits[(intValue \div 16) + 1], HexDigits[(intValue % 16) + 1]>>

\* the cache key RRGGBBAA
ColorKey(color) ==
    toHex(color[1]) \o toHex(color[2]) \o toHex(color[3]) \o toHex(color[4])

\* CreateMaterialFromColor: the material is its name and its opacity (the
\* alpha channel, in 1/255 units); the other properties are constants
CreateMaterialFromColor(alpha255, name) ==
    [name |-> name, opacity |-> alpha255, source |-> "color"]

\* variant that never records the new slot in the cache
GetOrCreateColorMaterialNoCache(color, cache, mats) ==
    LET colorKey == ColorKey(color)
    IN [index |-> Len(mats),
        cache |-> cache,
        mats |-> Append(mats, CreateMaterialFromColor(RoundChannel(color[4]), colorKey))]

\* cache: function from colour keys to slot indices; mats: pScene->mMaterials
GetOrCreateColorMaterial(color, cache, mats) ==
    LET colorKey == ColorKey(color)
    IN IF colorKey \in DOMAIN cache
       THEN [index |-> cache[colorKey], cache |-> cache, mats |-> mats]
       ELSE [index |-> Len(mats),
             cache |-> [k \in DOMAIN cache \cup {colorKey} |->
                            IF k = colorKey THEN Len(mats) ELSE cache[k]],
             mats |-> Append(mats, CreateMaterialFromColor(RoundChannel(color[4]), colorKey))]

\* colours presented by placed geometries (channels in 1/510 units; values
\* below 0 and above 510 are out of range and get clamped)
Colors == {<<r, 0, b, a>> : r \in {0 - 1, 0, 1, 2}, b \in {30, 31}, a \in {510, 511}}

EmptyCache == [k \in {} |-> 0]

AuthoredMaterial(id) == [name |-> <<"IFC_Material_">> \o to_string(id), opacity |-> 255,
                         source |-> "ifc"]

\* ------------------------------------------------------------------------
\* Geometry: the buffers of the geometry processor and the mesh builders
\* ------------------------------------------------------------------------
\* GetGeometry(geometryExpressID): fvertexData as a sequence of positions
\* (the three normal floats of each 6-float vertex are never read) and
\* indexData as the flat index list.
GetGeometry(gid) ==
    CASE gid = 101 -> [fvertexData |-> << <<0, 0, 0>>, <<1, 0, 0>>, <<0, 1, 0>> >>,
                       indexData |-> <<0, 1, 2>>]
      [] gid = 102 -> [fvertexData |-> << <<0, 0, 0>>, <<1, 0, 0>>, <<1, 1, 0>>, <<0, 1, 0>> >>,
                       indexData |-> <<0, 1, 2, 0, 2, 3>>]
      [] gid = 103 -> [fvertexData |-> << >>, indexData |-> << >>]
      [] OTHER     -> [fvertexData |-> << <<0, 0, 1>> >>, indexData |-> << >>]

GeometryIDs == {101, 102, 103, 104}

IdentityTransform == <<1, 0, 0, 0,  0, 1, 0, 0,  0, 0, 1, 0,  0, 0, 0, 1>>

ShiftTransform == <<1, 0, 0, 0,  0, 1, 0, 0,  0, 0, 1, 0,  2, 0, 3, 1>>

\* transformation * (x, y, z, 1) for the column-major flatTransformation
TransformPoint(t, p) ==
    << t[1] * p[1] + t[5] * p[2] + t[9]  * p[3] + t[13],
       t[2] * p[1] + t[6] * p[2] + t[10] * p[3] + t[14],
       t[3] * p[1] + t[7] * p[2] + t[11] * p[3] + t[15] >>

\* the faces of a flat index list: for (i = 0; i < size; i += 3)
FacesOf(indexData, vertexOffset) ==
    [f \in 1..(Len(indexData) \div 3) |->
        << vertexOffset + indexData[3 * f - 2],
           vertexOffset + indexData[3 * f - 1],
           vertexOffset + indexData[3 * f] >>]

\* variant that takes the colour slot whatever the element is related to
MaterialForGeometryColorOnly(rel, matIDToIndex, color, cache, mats) ==
    GetOrCreateColorMaterial(color, cache, mats)

\* material slot of one placed geometry: the authored material of the
\* element (first pair of its relMaterials entry) when materialIDToIndex
\* knows it, else the colour slot.  rel is relMaterials[expressID] as the
\* sequence of its material ids, empty when the element has no entry.
MaterialForGeometry(rel, matIDToIndex, color, cache, mats) ==
    IF rel # << >> /\ rel[1] \in DOMAIN matIDToIndex
    THEN [index |-> matIDToIndex[rel[1]], cache |-> cache, mats |-> mats]
    ELSE GetOrCreateColorMaterial(color, cache, mats)

EmptyMerge(cache, mats) ==
    [vertices |-> << >>, faces |-> << >>, materialIndices |-> << >>,
     cache |-> cache, mats |-> mats, threw |-> FALSE]

\* the merged buffers after one more geometry: its transformed vertices,
\* its faces moved by the vertex offset, its slot m for each of its faces
AppendGeometry(acc, newVerts, newFaces, m) ==
    [vertices |-> acc.vertices \o newVerts,
     faces |-> acc.faces \o newFaces,
     materialIndices |-> acc.materialIndices \o [f \in 1..Len(newFaces) |-> m.index],
     cache |-> m.cache, mats |-> m.mats, threw |-> FALSE]

TransformVertices(flatTransformation, fvertexData) ==
    [i \in 1..Len(fvertexData) |-> TransformPoint(flatTransformation, fvertexData[i])]

\* one iteration of the loop over flatMesh.geometries with the buffers
\* ifcGeom of the geometry; skipEmpty is the "continue" on empty buffers
\* that only CreateMeshFromFlatMesh has
MergeBuffers(acc, placedGeom, ifcGeom, rel, matIDToIndex, skipEmpty) ==
    IF skipEmpty /\ (ifcGeom.fvertexData = << >> \/ ifcGeom.indexData = << >>)
    THEN acc
    ELSE AppendGeometry(acc,
                        TransformVertices(placedGeom.flatTransformation, ifcGeom.fvertexData),
                        FacesOf(ifcGeom.indexData, Len(acc.vertices)),
                        MaterialForGeometry(rel, matIDToIndex, placedGeom.color,
                                            acc.cache, acc.mats))

MergeGeometry(acc, placedGeom, rel, matIDToIndex, skipEmpty) ==
    MergeBuffers(acc, placedGeom, GetGeometry(placedGeom.geometryExpressID),
                 rel, matIDToIndex, skipEmpty)

RECURSIVE MergeGeometries(_, _, _, _, _, _, _)
\* the loop over flatMesh.geometries from position k; throwAt > 0 makes
\* GetGeometry throw at that position
MergeGeometries(acc, geometries, k, rel, matIDToIndex, skipEmpty, throwAt) ==
    IF k > Len(geometries) THEN acc
    ELSE IF k = throwAt THEN [acc EXCEPT !.threw = TRUE]
    ELSE MergeGeometries(MergeGeometry(acc, geometries[k], rel, matIDToIndex, skipEmpty),
                         geometries, k + 1, rel, matIDToIndex, skipEmpty, throwAt)

NoMesh == [null |-> TRUE]

NeedsSplittingPrefix == <<"NeedsSplitting_">>

\* variant of the end of CreateMeshFromFlatMesh that copies one vertex less
\* than was merged
MeshOfMergedShortVertices(expressID, acc) ==
    IF acc.threw \/ acc.vertices = << >> \/ acc.faces = << >>
    THEN [mesh |-> NoMesh, cache |-> acc.cache, mats |-> acc.mats]
    ELSE [mesh |-> [null |-> FALSE,
                    mName |-> IF Cardinality(Range(acc.materialIndices)) <= 1 THEN << >>
                              ELSE NeedsSplittingPrefix \o to_string(expressID),
                    mMaterialIndex |-> acc.materialIndices[1],
                    mVertices |-> SubSeq(acc.vertices, 1, Len(acc.vertices) - 1),
                    mFaces |-> acc.faces,
                    mNumUVComponents |-> 2],
          cache |-> acc.cache, mats |-> acc.mats]

\* the end of CreateMeshFromFlatMesh on the merged buffers acc: nullptr
\* after an exception or without vertices or faces, else the mesh, named
\* NeedsSplitting_<id> when its faces use more than one slot
MeshOfMerged(expressID, acc) ==
    IF acc.threw \/ acc.vertices = << >> \/ acc.faces = << >>
    THEN [mesh |-> NoMesh, cache |-> acc.cache, mats |-> acc.mats]
    ELSE [mesh |-> [null |-> FALSE,
                    mName |-> IF Cardinality(Range(acc.materialIndices)) <= 1 THEN << >>
                              ELSE NeedsSplittingPrefix \o to_string(expressID),
                    mMaterialIndex |-> acc.materialIndices[1],
                    mVertices |-> acc.vertices,
                    mFaces |-> acc.faces,
                    mNumUVComponents |-> 2],
          cache |-> acc.cache, mats |-> acc.mats]

\* CreateMeshFromFlatMesh: [mesh, cache, mats]; mesh is NoMesh for nullptr
CreateMeshFromFlatMesh(expressID, flatMesh, rel, matIDToIndex, cache, mats, throwAt) ==
    IF flatMesh.geometries = << >>
    THEN [mesh |-> NoMesh, cache |-> cache, mats |-> mats]
    ELSE MeshOfMerged(expressID,
                      MergeGeometries(EmptyMerge(cache, mats), flatMesh.geometries, 1,
                                      rel, matIDToIndex, TRUE, throwAt))

\* grouping loop that stops one face early
FaceIndicesOfShort(materialIndices, materialIndex) ==
    SelectSeq([i \in 1..(Len(materialIndices) - 1) |-> i],
              LAMBDA i : materialIndices[i] = materialIndex)

\* faces (positions in the merged face list) per material slot:
\* materialToFaceIndices[materialIndices[i]].push_back(i)
FaceIndicesOf(materialIndices, materialIndex) ==
    SelectSeq([i \in 1..Len(materialIndices) |-> i],
              LAMBDA i : materialIndices[i] = materialIndex)

\* variant that lists the vertices the faces use from the highest original
\* index down instead of in order of first use
CollectVerticesDescending(faces, faceIdxs, seen) ==
    LET used == UNION {Range(faces[faceIdxs[j]]) : j \in DOMAIN faceIdxs}
    IN [i \in 1..Cardinality(used) |->
          CHOOSE u \in used : Cardinality({w \in used : w > u}) = i - 1]

RECURSIVE CollectVertices(_, _, _)
\* the vertexRemapping loop: the original vertex indices of the faces
\* faceIdxs of a partition, each once, in order of first use
CollectVertices(faces, faceIdxs, seen) ==
    IF faceIdxs = << >> THEN seen
    ELSE LET f == faces[Head(faceIdxs)]
             s1 == IF \E i \in DOMAIN seen : seen[i] = f[1] THEN seen ELSE Append(seen, f[1])
             s2 == IF \E i \in DOMAIN s1 : s1[i] = f[2] THEN s1 ELSE Append(s1, f[2])
             s3 == IF \E i \in DOMAIN s2 : s2[i] = f[3] THEN s2 ELSE Append(s2, f[3])
         IN CollectVertices(faces, Tail(faceIdxs), s3)

\* position (0-based) of original vertex index v in the collected list
RemapOf(collected, v) == (CHOOSE i \in DOMAIN collected : collected[i] = v) - 1

MatSuffix == <<"_Mat">>

MeshPrefix == <<"Mesh ">>

\* the sub-mesh of one material slot from the faces faceIdxs of the slot and
\* the original vertex indices collected from them
SubMeshOf(elementName, expressID, vertices, faces, materialIndex, faceIdxs, collected) ==
    [null |-> FALSE,
     mName |-> (IF elementName # << >> THEN elementName
                ELSE MeshPrefix \o to_string(expressID))
               \o MatSuffix \o to_string(materialIndex),
     mMaterialIndex |-> materialIndex,
     mVertices |-> [i \in 1..Len(collected) |-> vertices[collected[i] + 1]],
     mFaces |-> [j \in 1..Len(faceIdxs) |->
                   << RemapOf(collected, faces[faceIdxs[j]][1]),
                      RemapOf(collected, faces[faceIdxs[j]][2]),
                      RemapOf(collected, faces[faceIdxs[j]][3]) >>],
     mNumUVComponents |-> 2]

\* body of the loop of SplitMeshByMaterials for one material slot
SubMesh(elementName, expressID, vertices, faces, materialIndices, materialIndex) ==
    SubMeshOf(elementName, expressID, vertices, faces, materialIndex,
              FaceIndicesOf(materialIndices, materialIndex),
              CollectVertices(faces, FaceIndicesOf(materialIndices, materialIndex), << >>))

\* SplitMeshByMaterials: one sub-mesh per key of materialToFaceIndices; order
\* is the iteration order of that unordered_map (a sequence of the keys)
SplitMeshByMaterials(elementName, expressID, vertices, faces, materialIndices, order) ==
    LET keys == SelectSeq(order, LAMBDA m : m \in Range(materialIndices))
    IN [k \in 1..Len(keys) |->
          SubMesh(elementName, expressID, vertices, faces, materialIndices, keys[k])]

\* the end of CreateSplitMeshesFromFlatMesh on the merged buffers acc
SplitOfMerged(elementName, expressID, acc, order) ==
    IF acc.threw \/ acc.vertices = << >> \/ acc.faces = << >>
    THEN [meshes |-> << >>, cache |-> acc.cache, mats |-> acc.mats]
    ELSE [meshes |-> SplitMeshByMaterials(elementName, expressID, acc.vertices,
                                          acc.faces, acc.materialIndices, order),
          cache |-> acc.cache, mats |-> acc.mats]

\* CreateSplitMeshesFromFlatMesh: [meshes, cache, mats]
CreateSplitMeshesFromFlatMesh(elementName, expressID, flatMesh, rel, matIDToIndex, cache, mats, order, throwAt) ==
    IF flatMesh.geometries = << >>
    THEN [meshes |-> << >>, cache |-> cache, mats |-> mats]
    ELSE SplitOfMerged(elementName, expressID,
                       MergeGeometries(EmptyMerge(cache, mats), flatMesh.geometries, 1,
                                       rel, matIDToIndex, FALSE, throwAt),
                       order)

\* all orders in which a set can be iterated
Perms(S) == {p \in [1..Cardinality(S) -> S] : \A x \in S : \E i \in DOMAIN p : p[i] = x}

\* ------------------------------------------------------------------------
\* One element of ExtractGeometry
\* ------------------------------------------------------------------------
NamedTagTypes == {"IFCSLAB", "IFCWALL", "IFCBEAM", "IFCCOLUMN"}

Meaningful(name) == name # << >> /\ name # <<"$">> /\ name # <<"'", "'">>

\* GetIFCElementName for the entity el: its decoded Name, else for slabs,
\* walls, beams and columns its decoded Tag when that looks like a name,
\* else the empty string
GetIFCElementName(el) ==
    IF el.name # << >> /\ Meaningful(DecodeIFCString(el.name))
    THEN DecodeIFCString(el.name)
    ELSE IF /\ el.type \in NamedTagTypes
            /\ el.tag # << >>
            /\ Meaningful(DecodeIFCString(el.tag))
            /\ Contains(DecodeIFCString(el.tag), <<"-">>)
            /\ Len(DecodeIFCString(el.tag)) < 20
         THEN DecodeIFCString(el.tag)
         ELSE << >>

\* the record stored in meshToIFCMetadata
IFCMeshMetadata(el) ==
    [expressID |-> el.expressID, ifcType |-> <<el.type>>, elementName |-> GetIFCElementName(el)]

RECURSIVE PushMeshesMetaFirst(_, _, _, _)
\* variant that stores the metadata entry of the next mesh index before the
\* type name is looked up
PushMeshesMetaFirst(st, newMeshes, el, typeThrows) ==
    IF newMeshes = << >> THEN st
    ELSE LET meshIndex == Len(st.meshes)
             withMeta == [k \in DOMAIN st.meta \cup {meshIndex} |->
                             IF k = meshIndex THEN IFCMeshMetadata(el) ELSE st.meta[k]]
         IN IF typeThrows THEN [st EXCEPT !.meta = withMeta]
            ELSE PushMeshesMetaFirst(
                   [st EXCEPT !.meta = withMeta,
                              !.meshes = Append(st.meshes, Head(newMeshes)),
                              !.needsDefault = st.needsDefault \/ Head(newMeshes).mMaterialIndex = 0],
                   Tail(newMeshes), el, typeThrows)

RECURSIVE PushMeshes(_, _, _, _)
\* the tail of both branches of the element loop: the type name is looked
\* up first (typeThrows: that lookup throws and the element is abandoned),
\* then each mesh gets its metadata entry and is pushed
PushMeshes(st, newMeshes, el, typeThrows) ==
    IF typeThrows \/ newMeshes = << >> THEN st
    ELSE LET meshIndex == Len(st.meshes)
         IN PushMeshes(
              [st EXCEPT !.meta = [k \in DOMAIN st.meta \cup {meshIndex} |->
                                      IF k = meshIndex THEN IFCMeshMetadata(el) ELSE st.meta[k]],
                         !.meshes = Append(st.meshes, Head(newMeshes)),
                         !.needsDefault = st.needsDefault \/ Head(newMeshes).mMaterialIndex = 0],
              Tail(newMeshes), el, typeThrows)

NoThrow == [where |-> "none", k |-> 0]

\* where the exception of throwPt is raised in a builder that merges n
\* geometries
ThrowsIn(throwPt, where, n) == throwPt.where = where /\ throwPt.k \in 1..n

\* the single-material branch of the loop body: the mesh is named after the
\* element or Mesh <id>, then pushed
PushSingle(st, mesh, el, elementName, typeThrows) ==
    PushMeshes([st EXCEPT !.threw = typeThrows],
               << [mesh EXCEPT !.mName = IF elementName # << >> THEN elementName
                                         ELSE MeshPrefix \o to_string(el.expressID)] >>,
               el, typeThrows)

\* the multi-material branch of the loop body after the split
PushSplit(st, splitRes, el, throwPt) ==
    PushMeshes([st EXCEPT !.cache = splitRes.cache, !.mats = splitRes.mats,
                          !.threw = \/ throwPt.where = "type"
                                    \/ ThrowsIn(throwPt, "split", Len(el.flatMesh.geometries))],
               splitRes.meshes, el, throwPt.where = "type")

\* the loop body after CreateMeshFromFlatMesh returned created; st holds the
\* materials and the cache as that call left them
ProcessCreated(st, el, matIDToIndex, order, throwPt, created) ==
    IF created.mesh = NoMesh THEN st
    ELSE IF Find(created.mesh.mName, NeedsSplittingPrefix, 1) = 1
    THEN PushSplit(st,
                   CreateSplitMeshesFromFlatMesh(GetIFCElementName(el), el.expressID,
                       el.flatMesh, el.rel, matIDToIndex, st.cache, st.mats, order,
                       IF throwPt.where = "split" THEN throwPt.k ELSE 0),
                   el, throwPt)
    ELSE PushSingle(st, created.mesh, el, GetIFCElementName(el), throwPt.where = "type")

\* the state after CreateMeshFromFlatMesh returned created
AfterCreate(st, el, throwPt, created) ==
    [st EXCEPT !.cache = created.cache, !.mats = created.mats,
               !.threw = ThrowsIn(throwPt, "create", Len(el.flatMesh.geometries))]

\* body of the loop over flatMeshesWithGeometry for one element, given what
\* CreateMeshFromFlatMesh returned for it
ProcessElementWith(st, el, matIDToIndex, order, throwPt, created) ==
    ProcessCreated(AfterCreate(st, el, throwPt, created), el, matIDToIndex, order,
                   throwPt, created)

\* body of the loop over flatMeshesWithGeometry for one element.
\* st = [meshes, meta, cache, mats, needsDefault, threw]; el is the element
\* (entity fields, flat mesh, relMaterials entry); order is the iteration
\* order of the split; throwPt says where, if anywhere, an exception is
\* raised while this element is processed.
ProcessElement(st, el, matIDToIndex, order, throwPt) ==
    ProcessElementWith(st, el, matIDToIndex, order, throwPt,
                       CreateMeshFromFlatMesh(el.expressID, el.flatMesh, el.rel, matIDToIndex,
                           st.cache, st.mats,
                           IF throwPt.where = "create" THEN throwPt.k ELSE 0))

\* the material slots of the merged triangles of an element, as
\* CreateMeshFromFlatMesh computes them
MergedOf(el, matIDToIndex, cache, mats) ==
    MergeGeometries(EmptyMerge(cache, mats), el.flatMesh.geometries, 1,
                    el.rel, matIDToIndex, TRUE, 0)

\* ------------------------------------------------------------------------
\* Scene nodes and the spatial hierarchy
\* ------------------------------------------------------------------------
\* the uint32_t type codes; four of them are above 2^31 - 1, so a code is
\* kept as its decimal numeral, which is also what std::to_string makes of it
IFCPROJECT == "103090709"

IFCSITE == "4097777520"

IFCBUILDING == "4031249490"

IFCBUILDINGSTOREY == "3124254112"

IFCSPACE == "3856911033"

\* node identifiers (the aiNode pointers): <<kind, i, j, k, l>>
Null == <<"null", 0, 0, 0, 0>>

SceneRootID == <<"scene", 0, 0, 0, 0>>

ProjectNodeID == <<"project", 0, 0, 0, 0>>

SiteID(i) == <<"site", i, 0, 0, 0>>

BuildingID(i, j) == <<"building", i, j, 0, 0>>

StoreyID(i, j, k) == <<"storey", i, j, k, 0>>

SpaceID(i, j, k, l) == <<"space", i, j, k, l>>

LeafID(n) == <<"leaf", n, 0, 0, 0>>

\* new aiNode(): no name, no parent, no children, no meshes, no metadata
NewNode(name) ==
    [mName |-> name, mParent |-> Null, mChildren |-> << >>, mMeshes |-> << >>,
     mMetaData |-> << >>]

\* CreateNodeFromIFCElement followed by ExtractElementProperties: the name
\* of the node of entity e.  The name field is argument 2 (Name), for an
\* IFCSPACE argument 7 (LongName); an empty field gives
\* fallbackName_<type>_<expressID>; a string GlobalId then replaces a name
\* that is empty or contains _<expressID> by IFC_<type>_<first 8 of GlobalId>.
NodeNameOf(e, fallbackName) ==
    LET raw == IF e.type = IFCSPACE THEN e.longName ELSE e.name
        first == IF raw # << >> THEN DecodeIFCString(raw)
                 ELSE fallbackName \o <<"_", e.type, "_">> \o to_string(e.id)
        gid == DecodeIFCString(e.globalId)
    IN IF e.globalId # << >> /\ (first = << >> \/ Contains(first, <<"_">> \o to_string(e.id)))
       THEN <<"IFC_", e.type, "_">> \o SubSeq(gid, 1, Min2(8, Len(gid)))
       ELSE first

CreateNodeFromIFCElement(e, fallbackName) == NewNode(NodeNameOf(e, fallbackName))

\* the lines of one entity type, in table order
LinesOfType(table, type) == SelectSeq(table, LAMBDA e : e.type = type)

\* the nodes BuildIFCSpatialHierarchy creates below the project node and the
\* project node itself with its children: every site gets a node for every
\* building, every such building node one for every storey, every such
\* storey node one for every space
SpatialNodes(table) ==
    LET projects == LinesOfType(table, IFCPROJECT)
        sites == LinesOfType(table, IFCSITE)
        buildings == LinesOfType(table, IFCBUILDING)
        storeys == LinesOfType(table, IFCBUILDINGSTOREY)
        spaces == LinesOfType(table, IFCSPACE)
        S == DOMAIN sites
        B == DOMAIN buildings
        K == DOMAIN storeys
        L == DOMAIN spaces
        ids == {ProjectNodeID}
               \cup {SiteID(i) : i \in S}
               \cup {BuildingID(i, j) : i \in S, j \in B}
               \cup {StoreyID(i, j, k) : i \in S, j \in B, k \in K}
               \cup {SpaceID(i, j, k, l) : i \in S, j \in B, k \in K, l \in L}
    IN [id \in ids |->
          CASE id[1] = "project" ->
                 [CreateNodeFromIFCElement(projects[1], <<"IFC_", "Project">>)
                    EXCEPT !.mChildren = [i \in S |-> SiteID(i)]]
            [] id[1] = "site" ->
                 [CreateNodeFromIFCElement(sites[id[2]], <<"IFC_", "Site">>)
                    EXCEPT !.mParent = ProjectNodeID,
                           !.mChildren = [j \in B |-> BuildingID(id[2], j)]]
            [] id[1] = "building" ->
                 [CreateNodeFromIFCElement(buildings[id[3]], <<"IFC_", "Building">>)
                    EXCEPT !.mParent = SiteID(id[2]),
                           !.mChildren = [k \in K |-> StoreyID(id[2], id[3], k)]]
            [] id[1] = "storey" ->
                 [CreateNodeFromIFCElement(storeys[id[4]], <<"IFC_", "Building", "Storey">>)
                    EXCEPT !.mParent = BuildingID(id[2], id[3]),
                           !.mChildren = [l \in L |-> SpaceID(id[2], id[3], id[4], l)]]
            [] OTHER ->
                 [CreateNodeFromIFCElement(spaces[id[5]], <<"IFC_", "Space">>)
                    EXCEPT !.mParent = StoreyID(id[2], id[3], id[4])]]

\* the test findStoreyByExpressID makes on one node: its name contains
\* IFC_BuildingStorey, or Erdgeschoss for storey 596, or Dachgeschoss for
\* storey 211330
IsStoreyNodeFor(name, targetStoreyID) ==
    \/ Contains(name, <<"IFC_", "Building", "Storey">>)
    \/ Contains(name, <<"Erdgeschoss">>) /\ targetStoreyID = 596
    \/ Contains(name, <<"Dachgeschoss">>) /\ targetStoreyID = 211330

RECURSIVE findStoreyFrom(_, _, _)
\* the depth-first search of the lambda, with the nodes still to visit as a
\* stack: a node is tested before its children, its children before its
\* later siblings
findStoreyFrom(ns, stack, targetStoreyID) ==
    IF stack = << >> THEN Null
    ELSE IF IsStoreyNodeFor(ns[Head(stack)].mName, targetStoreyID) THEN Head(stack)
    ELSE findStoreyFrom(ns, ns[Head(stack)].mChildren \o Tail(stack), targetStoreyID)

\* the lambda of AssignMeshesToHierarchy: the first node in depth-first
\* order that passes the test; Null when there is none
findStoreyByExpressID(ns, searchNode, targetStoreyID) ==
    IF searchNode = Null THEN Null ELSE findStoreyFrom(ns, <<searchNode>>, targetStoreyID)

\* the test on a grandchild of the root: one of its children is named like a
\* building
HasBuildings(ns, grandchild) ==
    \E k \in DOMAIN ns[grandchild].mChildren :
        \/ Contains(ns[ns[grandchild].mChildren[k]].mName, <<"IFC_", "Building">>)
        \/ Contains(ns[ns[grandchild].mChildren[k]].mName, <<"Building">>)

RECURSIVE FindSemanticParentFrom(_, _, _)
\* the loop over the children of the root from position i: for each child,
\* its first child that has buildings, else that child itself
FindSemanticParentFrom(ns, rootNode, i) ==
    IF i > Len(ns[rootNode].mChildren) THEN rootNode
    ELSE LET child == ns[rootNode].mChildren[i]
             hits == {j \in DOMAIN ns[child].mChildren :
                         HasBuildings(ns, ns[child].mChildren[j])}
         IN IF hits # {}
            THEN ns[child].mChildren[CHOOSE j \in hits : \A h \in hits : j <= h]
            ELSE IF rootNode # child THEN child
            ELSE FindSemanticParentFrom(ns, rootNode, i + 1)

FindSemanticParentForUnassignedItems(ns, rootNode) ==
    IF rootNode = Null THEN Null ELSE FindSemanticParentFrom(ns, rootNode, 1)

\* the two metadata entries of a mesh node
MeshNodeMetaData(meta, meshIndex) ==
    IF meshIndex \in DOMAIN meta
    THEN << <<"IFC.ExpressID", meta[meshIndex].expressID>>,
            <<"IFC.Type", meta[meshIndex].ifcType>> >>
    ELSE << >>

NumLeaves(ns) == Cardinality({id \in DOMAIN ns : id[1] = "leaf"})

\* mesh node that is appended to the children without its parent pointer
AttachMeshNodeNoParent(ns, parent, meshIndex, sceneMeshes, meta) ==
    LET id == LeafID(NumLeaves(ns) + 1)
        meshNode == [NewNode(sceneMeshes[meshIndex + 1].mName)
                        EXCEPT !.mMetaData = MeshNodeMetaData(meta, meshIndex),
                               !.mMeshes = <<meshIndex>>]
    IN [n \in DOMAIN ns \cup {id} |->
          IF n = id THEN meshNode
          ELSE IF n = parent THEN [ns[n] EXCEPT !.mChildren = Append(@, id)]
          ELSE ns[n]]

\* body of the two mesh loops: a new node named after the mesh, with the
\* mesh, its metadata and its parent, appended to the children of parent
AttachMeshNode(ns, parent, meshIndex, sceneMeshes, meta) ==
    LET id == LeafID(NumLeaves(ns) + 1)
        meshNode == [NewNode(sceneMeshes[meshIndex + 1].mName)
                        EXCEPT !.mParent = parent,
                               !.mMetaData = MeshNodeMetaData(meta, meshIndex),
                               !.mMeshes = <<meshIndex>>]
    IN [n \in DOMAIN ns \cup {id} |->
          IF n = id THEN meshNode
          ELSE IF n = parent THEN [ns[n] EXCEPT !.mChildren = Append(@, id)]
          ELSE ns[n]]

RECURSIVE AttachMeshNodes(_, _, _, _, _, _)
\* the first count mesh nodes of meshIndices attached to parent
AttachMeshNodes(ns, parent, meshIndices, count, sceneMeshes, meta) ==
    IF count = 0 \/ meshIndices = << >> THEN ns
    ELSE AttachMeshNodes(AttachMeshNode(ns, parent, Head(meshIndices), sceneMeshes, meta),
                         parent, Tail(meshIndices), count - 1, sceneMeshes, meta)

\* variant that counts the mesh indices from 1
FlatHierarchyFromOne(ns, root, numMeshes) ==
    IF numMeshes > 0
    THEN [ns EXCEPT ![root].mMeshes = [i \in 1..numMeshes |-> i]]
    ELSE ns

\* the flat hierarchy: the root references every mesh index
FlatHierarchy(ns, root, numMeshes) ==
    IF numMeshes > 0
    THEN [ns EXCEPT ![root].mMeshes = [i \in 1..numMeshes |-> i - 1]]
    ELSE ns

\* the grouping loop of AssignMeshesToHierarchy
StoreyOfMesh(meta, storeyMap, i) ==
    IF i \in DOMAIN meta /\ meta[i].expressID \in DOMAIN storeyMap
    THEN storeyMap[meta[i].expressID] ELSE 0

GroupMeshes(numMeshes, meta, storeyMap) ==
    LET all == [i \in 1..numMeshes |-> i - 1]
        keys == {StoreyOfMesh(meta, storeyMap, i) : i \in 0..(numMeshes - 1)} \ {0}
    IN [storeyToMeshes |-> [sid \in keys |->
                               SelectSeq(all, LAMBDA i : StoreyOfMesh(meta, storeyMap, i) = sid)],
        unassignedMeshes |-> SelectSeq(all, LAMBDA i : StoreyOfMesh(meta, storeyMap, i) = 0)]

\* the nodes reachable from the root and the tree traversals of the tests
RECURSIVE Reachable(_, _, _)
Reachable(ns, frontier, seen) ==
    IF frontier = {} THEN seen
    ELSE LET next == UNION {Range(ns[n].mChildren) : n \in frontier} \ (seen \cup frontier)
         IN Reachable(ns, next, seen \cup frontier)

TreeNodes(ns, root) == IF root = Null THEN {} ELSE Reachable(ns, {root}, {})

\* ------------------------------------------------------------------------
\* State
\* ------------------------------------------------------------------------
VARIABLES
    pc,                   \* position of the importer in a load
    loads,                \* number of loads started on this importer
    result,               \* how the last load ended: "none", "returned", "threw"
    modelManager,         \* IFCImporter::modelManager # nullptr
    openModels,           \* ids of the models the model manager holds open
    createdModels,        \* ids handed out by CreateModel, one per load that got that far
    currentModelID,       \* IFCImporter::currentModelID
    elementToStoreyMap,   \* IFCImporter::elementToStoreyMap
    materialIDToIndex,    \* IFCImporter::materialIDToIndex
    meshToIFCMetadata,    \* IFCImporter::meshToIFCMetadata
    mMaterials,           \* pScene->mMaterials (mNumMaterials is its length)
    mMeshes,              \* pScene->mMeshes (mNumMeshes is its length)
    nodes,                \* the aiNode objects alive, by identifier
    mRootNode,            \* pScene->mRootNode
    meshes,               \* ExtractGeometry: the local vector meshes
    colorMaterialCache,   \* ExtractGeometry: the local colorMaterialCache
    needsDefaultMaterial, \* ExtractGeometry: the local flag
    elements,             \* ExtractGeometry: position in flatMeshesWithGeometry
    elemLog,              \* the elements processed so far and whether each threw
    projectIDs,           \* BuildIFCSpatialHierarchy: the local projectIDs
    lines,                \* BuildIFCSpatialHierarchy: the entity table it scanned
    storeyToMeshes,       \* AssignMeshesToHierarchy: the local storeyToMeshes
    unassignedMeshes,     \* AssignMeshesToHierarchy: the local unassignedMeshes
    hierarchyThrew,       \* an exception left BuildIFCSpatialHierarchy in this load
    decoded,              \* one call of DecodeIFCString: input and output
    colorCalls,           \* the calls of GetOrCreateColorMaterial made so far
    split,                \* one element taken through the mesh builders
    canRead,              \* one call of CanRead: arguments and result
    containment           \* one call of PopulateSpatialContainmentMap: input and result

vars == << pc, loads, result, modelManager, openModels, createdModels, currentModelID,
           elementToStoreyMap, materialIDToIndex, meshToIFCMetadata,
           mMaterials, mMeshes, nodes, mRootNode,
           meshes, colorMaterialCache, needsDefaultMaterial, elements, elemLog,
           projectIDs, lines, storeyToMeshes, unassignedMeshes, hierarchyThrew,
           decoded, colorCalls, split, canRead, containment >>

importerVars == << loads, result, modelManager, openModels, createdModels, currentModelID,
                   elementToStoreyMap, materialIDToIndex, meshToIFCMetadata >>

sceneVars == << mMaterials, mMeshes, nodes, mRootNode >>

geometryVars == << meshes, colorMaterialCache, needsDefaultMaterial, elements, elemLog >>

hierarchyVars == << projectIDs, lines, storeyToMeshes, unassignedMeshes, hierarchyThrew >>

pureVars == << decoded, colorCalls, split, canRead, containment >>

EmptyMap == [k \in {} |-> 0]

NoDecode == [input |-> << >>, output |-> << >>, done |-> FALSE]

NoSplit == [phase |-> "none"]

NoCanRead == [done |-> FALSE]

NoContainment == [done |-> FALSE]

\* the state of a freshly constructed importer and an empty scene, but for
\* the scene materials and the material map
InitBase ==
    /\ pc = "idle"
    /\ loads = 0
    /\ result = "none"
    /\ modelManager = FALSE
    /\ openModels = {}
    /\ createdModels = << >>
    /\ currentModelID = 0
    /\ elementToStoreyMap = EmptyMap
    /\ meshToIFCMetadata = EmptyMap
    /\ mMeshes = << >>
    /\ nodes = EmptyMap
    /\ mRootNode = Null
    /\ meshes = << >>
    /\ colorMaterialCache = EmptyCache
    /\ needsDefaultMaterial = FALSE
    /\ elements = 0
    /\ elemLog = << >>
    /\ projectIDs = << >>
    /\ lines = << >>
    /\ storeyToMeshes = EmptyMap
    /\ unassignedMeshes = << >>
    /\ hierarchyThrew = FALSE

InitImporter ==
    /\ InitBase
    /\ materialIDToIndex = EmptyMap
    /\ mMaterials = << >>

\* ------------------------------------------------------------------------
\* Specification of DecodeIFCString alone
\* ------------------------------------------------------------------------
InitDecode ==
    /\ InitImporter
    /\ decoded \in {[input |-> s, output |-> << >>, done |-> FALSE] : s \in RawStrings}
    /\ colorCalls = << >>
    /\ split = NoSplit
    /\ canRead = NoCanRead
    /\ containment = NoContainment

DecodeCall ==
    /\ ~decoded.done
    /\ decoded' = [decoded EXCEPT !.output = DecodeIFCString(decoded.input), !.done = TRUE]
    /\ UNCHANGED << pc, importerVars, sceneVars, geometryVars, hierarchyVars,
                    colorCalls, split, canRead, containment >>

NextDecode == DecodeCall

SpecDecode == InitDecode /\ [][NextDecode]_vars

\* C6: DecodeIFCString is idempotent, leaves none of the seven escape tokens
\* of its table in its result, and returns its input unchanged when the input
\* holds none of them.
C6_DecodeIdempotentComplete ==
    decoded.done =>
        /\ DecodeIFCString(decoded.output) = decoded.output
        /\ ~HasEscapeToken(decoded.output)
        /\ (~HasEscapeToken(decoded.input) => decoded.output = decoded.input)

\* a decoded string whose input held two adjacent escape tokens, one of them
\* the token that ends in a backslash
C6_Witness ==
    /\ decoded.done
    /\ decoded.input = <<BS, "S", BS, BS, "S">>
    /\ decoded.output = <<"xC3", "x9C", "S">>

\* ------------------------------------------------------------------------
\* Specification of GetOrCreateColorMaterial alone: any sequence of calls
\* within one ExtractGeometry, on a scene that already holds the authored
\* materials
\* ------------------------------------------------------------------------
InitColorCalls ==
    /\ InitBase
    /\ materialIDToIndex = EmptyMap
    /\ mMaterials \in {<< >>, <<AuthoredMaterial(7)>>, <<AuthoredMaterial(7), AuthoredMaterial(8)>>}
    /\ decoded = NoDecode
    /\ colorCalls = << >>
    /\ split = NoSplit
    /\ canRead = NoCanRead
    /\ containment = NoContainment

ColorCall ==
    /\ Len(colorCalls) < MaxColorCalls
    /\ \E color \in Colors :
          LET r == GetOrCreateColorMaterial(color, colorMaterialCache, mMaterials)
          IN /\ colorMaterialCache' = r.cache
             /\ mMaterials' = r.mats
             /\ colorCalls' = Append(colorCalls,
                                     [color |-> color, index |-> r.index,
                                      before |-> Len(mMaterials), after |-> Len(r.mats)])
    /\ UNCHANGED << pc, importerVars, mMeshes, nodes, mRootNode, meshes,
                    needsDefaultMaterial, elements, elemLog, hierarchyVars, decoded, split,
                    canRead, containment >>

NextColor == ColorCall

SpecColor == InitColorCalls /\ [][NextColor]_vars

\* C5: of any two calls of GetOrCreateColorMaterial in one load, calls whose
\* colours round to the same RRGGBBAA key return the same slot index and
\* the later one adds no material (each call adds at most one), and calls
\* whose colours round to different keys return different slot indices.
C5_ColorSlotDedup ==
    \A i, j \in DOMAIN colorCalls :
        /\ colorCalls[i].after - colorCalls[i].before \in {0, 1}
        /\ (i < j /\ ColorKey(colorCalls[i].color) = ColorKey(colorCalls[j].color))
              => /\ colorCalls[i].index = colorCalls[j].index
                 /\ colorCalls[j].after = colorCalls[j].before
        /\ ColorKey(colorCalls[i].color) # ColorKey(colorCalls[j].color)
              => colorCalls[i].index # colorCalls[j].index

\* two calls with different colours that round to one key, answered with one
\* slot behind an authored material
C5_Witness ==
    /\ Len(colorCalls) = 2
    /\ colorCalls[1].color # colorCalls[2].color
    /\ ColorKey(colorCalls[1].color) = ColorKey(colorCalls[2].color)
    /\ colorCalls[1].index = 1
    /\ colorCalls[2].index = 1
    /\ Len(mMaterials) = 2

\* ------------------------------------------------------------------------
\* Specification of the mesh builders alone: one element, any flat mesh of up
\* to MaxGeoms placed geometries, taken through the body of the element loop
\* ------------------------------------------------------------------------
SplitColors == { <<0, 0, 30, 510>>, <<1, 0, 30, 510>>, <<2, 0, 30, 511>> }

PlacedGeometries ==
    {[geometryExpressID |-> g, flatTransformation |-> t, color |-> c] :
        g \in GeometryIDs, t \in {IdentityTransform, ShiftTransform}, c \in SplitColors}

FlatMeshes == {[geometries |-> gs] : gs \in SeqsUpTo(PlacedGeometries, MaxGeoms) \ {<< >>}}

\* the element of the window of the test model, with and without an authored
\* material relation
SplitElements ==
    {[expressID |-> 11, type |-> "IFCWINDOW", name |-> <<"EG-Fenster-1">>, tag |-> << >>,
      flatMesh |-> fm, rel |-> r] : fm \in FlatMeshes, r \in {<< >>, <<7>>}}

InitSplit ==
    /\ InitBase
    /\ \/ materialIDToIndex = EmptyMap /\ mMaterials = << >>
       \/ materialIDToIndex = (7 :> 0) /\ mMaterials = <<AuthoredMaterial(7)>>
    /\ decoded = NoDecode
    /\ colorCalls = << >>
    /\ split \in {[phase |-> "in", el |-> el] : el \in SplitElements}
    /\ canRead = NoCanRead
    /\ containment = NoContainment

SplitCall ==
    /\ split.phase = "in"
    /\ LET merged == MergedOf(split.el, materialIDToIndex, colorMaterialCache, mMaterials)
       IN \E order \in Perms(Range(merged.materialIndices)) :
            LET st == ProcessElement([meshes |-> << >>, meta |-> EmptyMap,
                                      cache |-> colorMaterialCache, mats |-> mMaterials,
                                      needsDefault |-> FALSE, threw |-> FALSE],
                                     split.el, materialIDToIndex, order, NoThrow)
            IN /\ split' = [phase |-> "out", el |-> split.el,
                            vertices |-> merged.vertices, faces |-> merged.faces,
                            materialIndices |-> merged.materialIndices,
                            out |-> st.meshes]
               /\ colorMaterialCache' = st.cache
               /\ mMaterials' = st.mats
    /\ UNCHANGED << pc, importerVars, mMeshes, nodes, mRootNode, meshes,
                    needsDefaultMaterial, elements, elemLog, hierarchyVars,
                    decoded, colorCalls, canRead, containment >>

NextSplit == SplitCall

SpecSplit == InitSplit /\ [][NextSplit]_vars

\* a triangle with its material slot and its three vertex positions
UnsplitTriangles ==
    [i \in 1..Len(split.faces) |->
        << split.materialIndices[i],
           split.vertices[split.faces[i][1] + 1],
           split.vertices[split.faces[i][2] + 1],
           split.vertices[split.faces[i][3] + 1] >>]

TrianglesOfMesh(m) ==
    [j \in 1..Len(m.mFaces) |->
        << m.mMaterialIndex,
           m.mVertices[m.mFaces[j][1] + 1],
           m.mVertices[m.mFaces[j][2] + 1],
           m.mVertices[m.mFaces[j][3] + 1] >>]

SplitTriangles == Flatten([k \in 1..Len(split.out) |-> TrianglesOfMesh(split.out[k])])

Count(seq, x) == Cardinality({i \in DOMAIN seq : seq[i] = x})

\* C4: an element whose merged triangles use more than one material slot
\* yields one mesh per distinct slot, no two meshes with the same slot, and
\* the triangles of the meshes (slot and three vertex positions each) are
\* exactly the merged triangles, each as often as in the merged list.
C4_SplitPartitionsTriangles ==
    (split.phase = "out" /\ Cardinality(Range(split.materialIndices)) > 1) =>
        /\ Len(split.out) = Cardinality(Range(split.materialIndices))
        /\ \A a, b \in DOMAIN split.out :
              a # b => split.out[a].mMaterialIndex # split.out[b].mMaterialIndex
        /\ \A x \in Range(UnsplitTriangles) \cup Range(SplitTriangles) :
              Count(UnsplitTriangles, x) = Count(SplitTriangles, x)

\* a two-coloured element split in two, one part being the two triangles of
\* the quad that share vertices
C4_Witness ==
    /\ split.phase = "out"
    /\ Len(split.out) = 2
    /\ Len(split.faces) = 3
    /\ \E k \in 1..2 : Len(split.out[k].mFaces) = 2 /\ Len(split.out[k].mVertices) = 4
    /\ split.out[1].mMaterialIndex > split.out[2].mMaterialIndex

\* ------------------------------------------------------------------------
\* The containment index and the authored materials
\* ------------------------------------------------------------------------
RECURSIVE MapRelatedElements(_, _, _)
\* the loop over relatedElements from position i; reading the reference at
\* position rel.k throws when rel.bad = "element"
MapRelatedElements(map, rel, i) ==
    IF i > Len(rel.relatedElements) \/ (rel.bad = "element" /\ rel.k = i) THEN map
    ELSE MapRelatedElements(
           [e \in DOMAIN map \cup {rel.relatedElements[i]} |->
               IF e = rel.relatedElements[i] THEN rel.relatingStructure ELSE map[e]],
           rel, i + 1)

RECURSIVE MapRelations(_, _, _)
\* the loop over spatialContainments; a relation whose relating structure
\* cannot be read (rel.bad = "structure") is skipped before anything is written
MapRelations(map, rels, j) ==
    IF j > Len(rels) THEN map
    ELSE MapRelations(IF rels[j].bad = "structure" THEN map
                      ELSE MapRelatedElements(map, rels[j], 1),
                      rels, j + 1)

\* PopulateSpatialContainmentMap; apiThrows: GetExpressIDsWithType throws
PopulateSpatialContainmentMap(spatialContainments, apiThrows) ==
    IF apiThrows THEN EmptyMap ELSE MapRelations(EmptyMap, spatialContainments, 1)

NoMaterial == [null |-> TRUE]

\* ExtractSingleIFCMaterial: the material named after the decoded Name of the
\* definition or IFC_Material_<id>; nullptr when its properties throw
ExtractSingleIFCMaterial(def) ==
    IF def.bad THEN NoMaterial
    ELSE [name |-> IF def.name # << >> THEN DecodeIFCString(def.name)
                   ELSE <<"IFC_Material_">> \o to_string(def.id),
          opacity |-> 255, source |-> "ifc"]

\* ProcessSurfaceStyle: a style already in the map is skipped
ProcessSurfaceStyle(acc, style) ==
    IF style.styleID \in DOMAIN acc.map THEN acc
    ELSE [materials |-> Append(acc.materials,
                               [name |-> IF style.name # << >> THEN DecodeIFCString(style.name)
                                         ELSE <<"IFC_SurfaceStyle_">> \o to_string(style.styleID),
                                opacity |-> 255, source |-> "style"]),
          map |-> [m \in DOMAIN acc.map \cup {style.styleID} |->
                      IF m = style.styleID THEN Len(acc.materials) ELSE acc.map[m]]]

RECURSIVE ProcessStyledItems(_, _, _)
\* the loops of ProcessStyledItems, flattened to the sequence of styles; a
\* style whose type cannot be read or is not IFCSURFACESTYLE adds nothing
ProcessStyledItems(acc, styles, j) ==
    IF j > Len(styles) THEN acc
    ELSE ProcessStyledItems(IF styles[j].bad \/ ~styles[j].surface THEN acc
                            ELSE ProcessSurfaceStyle(acc, styles[j]),
                            styles, j + 1)

RECURSIVE ExtractDefinitions(_, _, _)
\* the loop over materialDefinitions, in its iteration order
ExtractDefinitions(acc, defs, j) ==
    IF j > Len(defs) THEN acc
    ELSE LET material == ExtractSingleIFCMaterial(defs[j])
         IN ExtractDefinitions(
              IF material = NoMaterial THEN acc
              ELSE [materials |-> Append(acc.materials, material),
                    map |-> [m \in DOMAIN acc.map \cup {defs[j].id} |->
                                IF m = defs[j].id THEN Len(acc.materials) ELSE acc.map[m]]],
              defs, j + 1)

\* ExtractIFCMaterials: [materials, map]; tbl.bad = "loader": the material
\* tables of the geometry loader cannot be read
ExtractIFCMaterials(tbl) ==
    IF tbl.bad = "loader" THEN [materials |-> << >>, map |-> EmptyMap]
    ELSE ProcessStyledItems(
           ExtractDefinitions([materials |-> << >>, map |-> EmptyMap], tbl.definitions, 1),
           tbl.styles, 1)

\* ExtractMaterials: [materials, map]; tbl.bad = "manager": the model manager
\* throws before anything is extracted and the catch adds IFC_Default
ExtractMaterialsOf(tbl) ==
    IF tbl.bad = "manager"
    THEN [materials |-> <<CreateMaterialFromColor(255, <<"IFC_Default">>)>>, map |-> EmptyMap]
    ELSE ExtractIFCMaterials(tbl)

\* ------------------------------------------------------------------------
\* Inputs of a load: what the file holds
\* ------------------------------------------------------------------------
\* express id of the element at position k of flatMeshesWithGeometry
ElementID(k) == 10 + k

Relation(structure, related, bad, k) ==
    [relatingStructure |-> structure, relatedElements |-> related, bad |-> bad, k |-> k]

\* the IFCRELCONTAINEDINSPATIALSTRUCTURE relations of a file
RelationTables ==
    { << >>,
      << Relation(596, <<11, 12>>, "none", 0) >>,
      << Relation(596, <<11>>, "none", 0), Relation(597, <<12>>, "none", 0) >>,
      << Relation(596, <<11, 12>>, "element", 2) >>,
      << Relation(597, <<11>>, "structure", 0), Relation(596, <<11, 12>>, "none", 0) >>,
      << Relation(597, <<11>>, "none", 0), Relation(596, <<11, 12>>, "none", 0) >> }

MaterialDef(id, name, bad) == [id |-> id, name |-> name, bad |-> bad]

SurfaceStyle(styleID, name, surface, bad) ==
    [styleID |-> styleID, name |-> name, surface |-> surface, bad |-> bad]

\* the material definitions and styled items of a file
MaterialTables ==
    { [definitions |-> << >>, styles |-> << >>, bad |-> "none"],
      [definitions |-> << >>, styles |-> << >>, bad |-> "manager"],
      [definitions |-> <<MaterialDef(7, << >>, FALSE)>>, styles |-> << >>, bad |-> "loader"],
      [definitions |-> <<MaterialDef(7, <<"Beton">>, FALSE)>>, styles |-> << >>, bad |-> "none"],
      [definitions |-> <<MaterialDef(7, << >>, TRUE)>>,
       styles |-> <<SurfaceStyle(7, << >>, TRUE, FALSE), SurfaceStyle(7, << >>, TRUE, FALSE),
                    SurfaceStyle(9, << >>, FALSE, FALSE), SurfaceStyle(9, << >>, TRUE, TRUE)>>,
       bad |-> "none"] }

Placed(g, c) == [geometryExpressID |-> g, flatTransformation |-> IdentityTransform, color |-> c]

\* the flat meshes of the elements of a file
MainFlatMeshes ==
    { [geometries |-> << Placed(101, <<0, 0, 30, 510>>) >>],
      [geometries |-> << Placed(101, <<0, 0, 30, 510>>), Placed(102, <<2, 0, 30, 511>>) >>],
      [geometries |-> << Placed(103, <<0, 0, 30, 510>>) >>] }

\* the element at position k: entity fields, flat mesh, relMaterials entry;
\* the first element has a Name, the others have none
MainElements(k) ==
    {[expressID |-> ElementID(k), type |-> "IFCWALL", name |-> n, tag |-> << >>,
      flatMesh |-> fm, rel |-> r] :
        n \in {IF k = 1 THEN <<"Wand">> ELSE << >>}, fm \in MainFlatMeshes,
        r \in {<< >>, <<7>>}}

\* where an exception can be raised while one element is processed
ThrowPoints ==
    {[where |-> w, k |-> k] : w \in {"create", "split"}, k \in 1..2}
    \cup {[where |-> "type", k |-> 0]}

Entity(id, type, name, longName, globalId, elevation) ==
    [id |-> id, type |-> type, name |-> name, longName |-> longName, globalId |-> globalId,
     elevation |-> elevation]

GlobalIdOf(id) == <<"G">> \o to_string(id) \o <<"$", "n", "5", "S", "L", "9", "q">>

\* the entity with or without its names and its GlobalId
Styled(style, id, type, name, longName) ==
    Entity(id, type,
           IF style = "named" THEN name ELSE << >>,
           IF style = "named" THEN longName ELSE << >>,
           IF style = "plain" THEN << >> ELSE GlobalIdOf(id),
           0)

\* the Elevation argument of the storey in line i of a file, in metres: a
\* file of style plain lists its storeys from the top down, the others from
\* the ground up
ElevationOf(style, i) == IF style = "plain" THEN 6 - 3 * i ELSE 3 * i - 3

\* the spatial entities of a file: shape is the number of projects, sites,
\* buildings, storeys and spaces; style says which of the entities' fields
\* are given
EntityTable(shape, style) ==
    [i \in 1..shape[1] |-> Styled(style, i, IFCPROJECT, <<"Projekt">>, << >>)]
    \o [i \in 1..shape[2] |->
          Styled(style, 100 + i, IFCSITE, <<"Gel", BS, "S", BS, "d", "nde">>, << >>)]
    \o [i \in 1..shape[3] |-> Styled(style, 200 + i, IFCBUILDING, <<"Caf", BS, "S", BS, "i">>, << >>)]
    \o [i \in 1..shape[4] |->
          [Styled(style, 595 + i, IFCBUILDINGSTOREY,
                  IF i = 1 THEN <<"Erdgeschoss">> ELSE <<"Obergeschoss">>, << >>)
             EXCEPT !.elevation = ElevationOf(style, i)]]
    \o [i \in 1..shape[5] |-> Styled(style, 300 + i, IFCSPACE, <<"R1">>, <<"Wohnen">>)]

\* the files: a shape and a style each
TableChoices ==
    { << <<0, 0, 0, 0, 0>>, "plain" >>, << <<0, 1, 1, 1, 0>>, "named" >>,
      << <<1, 0, 0, 0, 0>>, "named" >>, << <<1, 0, 1, 1, 0>>, "plain" >>,
      << <<1, 1, 0, 0, 0>>, "gid" >>,
      << <<1, 1, 1, 0, 0>>, "plain" >>, << <<1, 1, 1, 0, 0>>, "named" >>,
      << <<1, 1, 1, 1, 0>>, "named" >>, << <<1, 1, 1, 1, 0>>, "gid" >>,
      << <<1, 1, 1, 1, 0>>, "plain" >>,
      << <<1, 1, 1, 2, 0>>, "named" >>, << <<1, 1, 1, 2, 0>>, "plain" >>,
      << <<1, 1, 1, 1, 1>>, "named" >>,
      << <<1, 2, 1, 1, 0>>, "plain" >>, << <<2, 1, 1, 1, 0>>, "plain" >> }

EntityTables == {EntityTable(c[1], c[2]) : c \in TableChoices}

\* ------------------------------------------------------------------------
\* The importer: any sequence of loads on one importer
\* ------------------------------------------------------------------------
Init ==
    /\ InitImporter
    /\ decoded = NoDecode
    /\ colorCalls = << >>
    /\ split = NoSplit
    /\ canRead = NoCanRead
    /\ containment = NoContainment

\* a load gets a scene of its own and fresh locals
FreshScene ==
    /\ mMaterials' = << >>
    /\ mMeshes' = << >>
    /\ nodes' = EmptyMap
    /\ mRootNode' = Null
    /\ meshes' = << >>
    /\ colorMaterialCache' = EmptyCache
    /\ needsDefaultMaterial' = FALSE
    /\ elements' = 0
    /\ elemLog' = << >>
    /\ projectIDs' = << >>
    /\ lines' = << >>
    /\ storeyToMeshes' = EmptyMap
    /\ unassignedMeshes' = << >>
    /\ hierarchyThrew' = FALSE

\* InternReadFile on a file that cannot be opened or read: InitializeWebIFC,
\* then the exception of LoadModelWithWebIFC before a model is created
LoadUnreadable ==
    /\ pc = "idle"
    /\ loads < MaxLoads
    /\ loads' = loads + 1
    /\ modelManager' = TRUE
    /\ result' = "threw"
    /\ FreshScene
    /\ UNCHANGED << pc, openModels, createdModels, currentModelID, elementToStoreyMap,
                    materialIDToIndex, meshToIFCMetadata, pureVars >>

\* the id ModelManager::CreateModel hands out: one never handed out before
NewModelID == Len(createdModels) + 1

\* InternReadFile up to CreateModel: InitializeWebIFC, the file is read, the
\* model is created and its id stored
CreateModel ==
    /\ pc = "idle"
    /\ loads < MaxLoads
    /\ loads' = loads + 1
    /\ modelManager' = TRUE
    /\ currentModelID' = NewModelID
    /\ createdModels' = Append(createdModels, NewModelID)
    /\ openModels' = openModels \cup {NewModelID}
    /\ result' = "running"
    /\ pc' = "loadfile"
    /\ FreshScene
    /\ UNCHANGED << elementToStoreyMap, materialIDToIndex, meshToIFCMetadata, pureVars >>

\* variant of CleanupWebIFC that leaves the model open
CleanupWebIFCKeepsOpen(modelID) == openModels

\* CleanupWebIFC(modelID)
CleanupWebIFC(modelID) ==
    IF modelManager /\ modelID \in openModels THEN openModels \ {modelID} ELSE openModels

\* LoadFile throws: the catch of LoadModelWithWebIFC closes the model and
\* rethrows
LoadFileThrows ==
    /\ pc = "loadfile"
    /\ openModels' = CleanupWebIFC(currentModelID)
    /\ result' = "threw"
    /\ pc' = "idle"
    /\ UNCHANGED << loads, modelManager, createdModels, currentModelID, elementToStoreyMap,
                    materialIDToIndex, meshToIFCMetadata, sceneVars, geometryVars,
                    hierarchyVars, pureVars >>

\* LoadFile succeeds: the root node IFC_Scene, then the containment index
LoadFile ==
    /\ pc = "loadfile"
    /\ nodes' = [id \in {SceneRootID} |-> NewNode(<<"IFC_Scene">>)]
    /\ mRootNode' = SceneRootID
    /\ \E rels \in RelationTables, apiThrows \in BOOLEAN :
          /\ apiThrows => rels = << >>
          /\ elementToStoreyMap' = PopulateSpatialContainmentMap(rels, apiThrows)
    /\ pc' = "materials"
    /\ UNCHANGED << loads, result, modelManager, openModels, createdModels, currentModelID,
                    materialIDToIndex, meshToIFCMetadata, mMaterials, mMeshes,
                    geometryVars, hierarchyVars, pureVars >>

\* ExtractMaterials
ExtractMaterials ==
    /\ pc = "materials"
    /\ \E tbl \in MaterialTables :
          LET r == ExtractMaterialsOf(tbl)
          IN /\ materialIDToIndex' = r.map
             /\ mMaterials' = r.materials
    /\ pc' = "geometry0"
    /\ UNCHANGED << loads, result, modelManager, openModels, createdModels, currentModelID,
                    elementToStoreyMap, meshToIFCMetadata, mMeshes, nodes, mRootNode,
                    geometryVars, hierarchyVars, pureVars >>

\* variant of clear() that keeps the entries of the map
ClearKeepsEntries(map) == map

\* std::unordered_map::clear() on a member map
Clear(map) == EmptyMap

\* ExtractGeometry up to the element loop
ExtractGeometryBegin ==
    /\ pc = "geometry0"
    /\ currentModelID \in openModels
    /\ meshToIFCMetadata' = Clear(meshToIFCMetadata)
    /\ meshes' = << >>
    /\ colorMaterialCache' = EmptyCache
    /\ needsDefaultMaterial' = FALSE
    /\ pc' = "geometry"
    /\ UNCHANGED << loads, result, modelManager, openModels, createdModels, currentModelID,
                    elementToStoreyMap, materialIDToIndex, sceneVars, elements, elemLog,
                    hierarchyVars, pureVars >>

\* ExtractGeometry when the material relations or the element list cannot be
\* read: the outer catch, the scene gets no meshes
ExtractGeometryThrows ==
    /\ pc = "geometry0"
    /\ currentModelID \in openModels
    /\ meshToIFCMetadata' = Clear(meshToIFCMetadata)
    /\ pc' = "scene"
    /\ UNCHANGED << loads, result, modelManager, openModels, createdModels, currentModelID,
                    elementToStoreyMap, materialIDToIndex, sceneVars, geometryVars,
                    hierarchyVars, pureVars >>

\* the locals and members the element loop works on
LoopState ==
    [meshes |-> meshes, meta |-> meshToIFCMetadata, cache |-> colorMaterialCache,
     mats |-> mMaterials, needsDefault |-> needsDefaultMaterial, threw |-> FALSE]

\* the loop body left the state r for the element el
ElementDone(el, throwPt, r) ==
    /\ (throwPt.where # "none") => r.threw
    /\ meshes' = r.meshes
    /\ meshToIFCMetadata' = r.meta
    /\ colorMaterialCache' = r.cache
    /\ mMaterials' = r.mats
    /\ needsDefaultMaterial' = r.needsDefault
    /\ elements' = elements + 1
    /\ elemLog' = Append(elemLog, [expressID |-> el.expressID, threw |-> r.threw])

\* one iteration of the element loop with the element el
ElementStep(el, order, throwPt) ==
    ElementDone(el, throwPt, ProcessElement(LoopState, el, materialIDToIndex, order, throwPt))

\* the iteration orders of the split of el: the material slots of its
\* triangles in any order
SplitOrders(el) ==
    Perms(Range(MergedOf(el, materialIDToIndex, colorMaterialCache, mMaterials).materialIndices))

\* the element loop processes the next element without an exception
ExtractElement ==
    /\ pc = "geometry"
    /\ elements < MaxElements
    /\ \E el \in MainElements(elements + 1) :
          \E order \in SplitOrders(el) : ElementStep(el, order, NoThrow)
    /\ UNCHANGED << pc, loads, result, modelManager, openModels, createdModels, currentModelID,
                    elementToStoreyMap, materialIDToIndex, mMeshes, nodes, mRootNode,
                    hierarchyVars, pureVars >>

\* the element loop processes the next element and an exception is raised:
\* inside one of the two mesh builders, which catch it themselves, or by the
\* type lookup, which the catch of the loop body handles
ExtractElementThrows ==
    /\ pc = "geometry"
    /\ elements < MaxElements
    /\ \E el \in MainElements(elements + 1), throwPt \in ThrowPoints :
          \E order \in SplitOrders(el) : ElementStep(el, order, throwPt)
    /\ UNCHANGED << pc, loads, result, modelManager, openModels, createdModels, currentModelID,
                    elementToStoreyMap, materialIDToIndex, mMeshes, nodes, mRootNode,
                    hierarchyVars, pureVars >>

\* the default material IFC_Default put in front of the scene materials
InsertDefaultMaterial(mats) == <<CreateMaterialFromColor(255, <<"IFC_Default">>)>> \o mats

\* variant of the index update that moves the non-zero indices two up
ShiftMaterialIndicesByTwo(ms) ==
    [i \in DOMAIN ms |->
        IF ms[i].mMaterialIndex > 0 THEN [ms[i] EXCEPT !.mMaterialIndex = @ + 2] ELSE ms[i]]

\* the update of the mesh material indices after the insertion: every
\* non-zero index moves one up
ShiftMaterialIndices(ms) ==
    [i \in DOMAIN ms |->
        IF ms[i].mMaterialIndex > 0 THEN [ms[i] EXCEPT !.mMaterialIndex = @ + 1] ELSE ms[i]]

\* ExtractGeometry after the element loop: IFC_Default is inserted at slot 0
\* when a mesh uses slot 0, the slots above 0 of the meshes move up by one,
\* and the meshes become the meshes of the scene
ExtractGeometryEnd ==
    /\ pc = "geometry"
    /\ mMaterials' = IF needsDefaultMaterial THEN InsertDefaultMaterial(mMaterials)
                     ELSE mMaterials
    /\ meshes' = IF needsDefaultMaterial THEN ShiftMaterialIndices(meshes) ELSE meshes
    /\ mMeshes' = meshes'
    /\ pc' = "scene"
    /\ UNCHANGED << loads, result, modelManager, openModels, createdModels, currentModelID,
                    elementToStoreyMap, materialIDToIndex, meshToIFCMetadata, nodes, mRootNode,
                    colorMaterialCache, needsDefaultMaterial, elements, elemLog,
                    hierarchyVars, pureVars >>

\* InternReadFile returns normally: nothing is closed
Returns ==
    /\ result' = "returned"
    /\ pc' = "idle"
    /\ UNCHANGED << loads, modelManager, openModels, createdModels, currentModelID >>

\* BuildSceneGraph when the entity table has no IFCPROJECT: flat hierarchy
BuildFlatHierarchy ==
    /\ pc = "scene"
    /\ \E table \in EntityTables :
          /\ LinesOfType(table, IFCPROJECT) = << >>
          /\ lines' = table
    /\ projectIDs' = << >>
    /\ nodes' = FlatHierarchy(nodes, mRootNode, Len(mMeshes))
    /\ Returns
    /\ UNCHANGED << elementToStoreyMap, materialIDToIndex, meshToIFCMetadata,
                    mMaterials, mMeshes, mRootNode, geometryVars,
                    storeyToMeshes, unassignedMeshes, hierarchyThrew, pureVars >>

\* BuildSceneGraph when there is an IFCPROJECT: the node of the first project
\* replaces the root, the spatial nodes are built and wired, and with meshes
\* in the scene AssignMeshesToHierarchy groups them by storey
BuildSpatialHierarchy ==
    /\ pc = "scene"
    /\ \E table \in EntityTables :
          /\ LinesOfType(table, IFCPROJECT) # << >>
          /\ lines' = table
          /\ projectIDs' = [i \in DOMAIN LinesOfType(table, IFCPROJECT) |->
                              LinesOfType(table, IFCPROJECT)[i].id]
          /\ nodes' = SpatialNodes(table)
    /\ mRootNode' = ProjectNodeID
    /\ IF Len(mMeshes) > 0
       THEN LET g == GroupMeshes(Len(mMeshes), meshToIFCMetadata, elementToStoreyMap)
            IN /\ storeyToMeshes' = g.storeyToMeshes
               /\ unassignedMeshes' = g.unassignedMeshes
               /\ pc' = "assign"
               /\ UNCHANGED << loads, result, modelManager, openModels, createdModels,
                               currentModelID >>
       ELSE /\ Returns
            /\ UNCHANGED << storeyToMeshes, unassignedMeshes >>
    /\ UNCHANGED << elementToStoreyMap, materialIDToIndex, meshToIFCMetadata,
                    mMaterials, mMeshes, geometryVars, hierarchyThrew, pureVars >>

\* the catch of BuildSceneGraph: the current root references every mesh
CatchHierarchyException(ns, root) ==
    /\ nodes' = FlatHierarchy(ns, root, Len(mMeshes))
    /\ mRootNode' = root
    /\ hierarchyThrew' = TRUE
    /\ Returns

\* an exception leaves BuildIFCSpatialHierarchy before a mesh node exists:
\* while the lines are scanned (the root is still IFC_Scene), or after the
\* project node replaced the root, while the first site is built (its node
\* is never wired to the project node)
BuildHierarchyThrows ==
    /\ pc = "scene"
    /\ \/ /\ CatchHierarchyException(nodes, mRootNode)
          /\ UNCHANGED << lines, projectIDs >>
       \/ \E table \in EntityTables :
             LET all == SpatialNodes(table)
                 made == {ProjectNodeID} \cup ({SiteID(1)} \cap DOMAIN all)
             IN /\ LinesOfType(table, IFCPROJECT) # << >>
                /\ lines' = table
                /\ projectIDs' = [i \in DOMAIN LinesOfType(table, IFCPROJECT) |->
                                    LinesOfType(table, IFCPROJECT)[i].id]
                /\ CatchHierarchyException(
                      [id \in made |-> [all[id] EXCEPT !.mChildren = << >>]], ProjectNodeID)
    /\ UNCHANGED << elementToStoreyMap, materialIDToIndex, meshToIFCMetadata,
                    mMaterials, mMeshes, geometryVars,
                    storeyToMeshes, unassignedMeshes, pureVars >>

\* the storey node of a group: found once for the group, the root when no
\* node is found
StoreyNodeOf(storeyID) ==
    LET found == findStoreyByExpressID(nodes, mRootNode, storeyID)
    IN IF found = Null THEN mRootNode ELSE found

\* one iteration of the loop over storeyToMeshes, in any order of the map
AssignStoreyMeshes ==
    /\ pc = "assign"
    /\ \E storeyID \in DOMAIN storeyToMeshes :
          /\ nodes' = AttachMeshNodes(nodes, StoreyNodeOf(storeyID), storeyToMeshes[storeyID],
                                      Len(storeyToMeshes[storeyID]), mMeshes, meshToIFCMetadata)
          /\ storeyToMeshes' = [k \in DOMAIN storeyToMeshes \ {storeyID} |-> storeyToMeshes[k]]
    /\ UNCHANGED << pc, importerVars, mMaterials, mMeshes, mRootNode, geometryVars,
                    projectIDs, lines, unassignedMeshes, hierarchyThrew, pureVars >>

\* an exception while the mesh nodes of a group are attached, after count of
\* them were attached
AssignStoreyMeshesThrows ==
    /\ pc = "assign"
    /\ \E storeyID \in DOMAIN storeyToMeshes :
          \E count \in 0..(Len(storeyToMeshes[storeyID]) - 1) :
             CatchHierarchyException(
                AttachMeshNodes(nodes, StoreyNodeOf(storeyID), storeyToMeshes[storeyID],
                                count, mMeshes, meshToIFCMetadata),
                mRootNode)
    /\ UNCHANGED << elementToStoreyMap, materialIDToIndex, meshToIFCMetadata,
                    mMaterials, mMeshes, geometryVars,
                    projectIDs, lines, storeyToMeshes, unassignedMeshes, pureVars >>

\* the parent of the unassigned meshes
FallbackParent ==
    LET found == FindSemanticParentForUnassignedItems(nodes, mRootNode)
    IN IF found = Null THEN mRootNode ELSE found

\* after the loop over storeyToMeshes: the unassigned meshes, if any, are
\* attached to the fallback parent, and the load returns
AssignUnassignedMeshes ==
    /\ pc = "assign"
    /\ DOMAIN storeyToMeshes = {}
    /\ nodes' = AttachMeshNodes(nodes, FallbackParent, unassignedMeshes,
                                Len(unassignedMeshes), mMeshes, meshToIFCMetadata)
    /\ unassignedMeshes' = << >>
    /\ Returns
    /\ UNCHANGED << elementToStoreyMap, materialIDToIndex, meshToIFCMetadata,
                    mMaterials, mMeshes, mRootNode, geometryVars,
                    projectIDs, lines, storeyToMeshes, hierarchyThrew, pureVars >>

\* an exception while the unassigned meshes are attached, after count of
\* them were attached
AssignUnassignedThrows ==
    /\ pc = "assign"
    /\ DOMAIN storeyToMeshes = {}
    /\ \E count \in 0..(Len(unassignedMeshes) - 1) :
          CatchHierarchyException(
             AttachMeshNodes(nodes, FallbackParent, unassignedMeshes, count,
                             mMeshes, meshToIFCMetadata),
             mRootNode)
    /\ UNCHANGED << elementToStoreyMap, materialIDToIndex, meshToIFCMetadata,
                    mMaterials, mMeshes, geometryVars,
                    projectIDs, lines, storeyToMeshes, unassignedMeshes, pureVars >>

\* ~IFCImporter: the current model is closed when its id is not 0, and the
\* model manager is deleted with whatever it still holds
Destructor ==
    /\ pc = "idle"
    /\ pc' = "destroyed"
    /\ openModels' = IF modelManager THEN {} ELSE openModels
    /\ modelManager' = FALSE
    /\ UNCHANGED << loads, result, createdModels, currentModelID, elementToStoreyMap,
                    materialIDToIndex, meshToIFCMetadata, sceneVars, geometryVars,
                    hierarchyVars, pureVars >>

Next ==
    \/ LoadUnreadable
    \/ CreateModel
    \/ LoadFileThrows
    \/ LoadFile
    \/ ExtractMaterials
    \/ ExtractGeometryBegin
    \/ ExtractGeometryThrows
    \/ ExtractElement
    \/ ExtractElementThrows
    \/ ExtractGeometryEnd
    \/ BuildFlatHierarchy
    \/ BuildSpatialHierarchy
    \/ BuildHierarchyThrows
    \/ AssignStoreyMeshes
    \/ AssignStoreyMeshesThrows
    \/ AssignUnassignedMeshes
    \/ AssignUnassignedThrows
    \/ Destructor

Spec == Init /\ [][Next]_vars

\* ------------------------------------------------------------------------
\* Properties of the loads
\* ------------------------------------------------------------------------
Returned == pc = "idle" /\ result = "returned"

NumMeshes == Len(mMeshes)

MeshIndices == 0..(NumMeshes - 1)

Tree == TreeNodes(nodes, mRootNode)

\* the places of the tree that reference mesh index i
MeshReferences(i) ==
    {<<n, k>> \in Tree \X (1..NumMeshes) :
        k \in DOMAIN nodes[n].mMeshes /\ nodes[n].mMeshes[k] = i}

\* the mesh nodes of the tree that hold mesh index i
MeshNodesOf(i) == {n \in Tree : n[1] = "leaf" /\ nodes[n].mMeshes = <<i>>}

\* the storey id the containment index gives the element of mesh i, 0 for none
StoreyOf(i) == StoreyOfMesh(meshToIFCMetadata, elementToStoreyMap, i)

\* C1: after a load that returned normally every mesh index of the scene is
\* referenced exactly once in the node tree.
C1_EachMeshReferencedOnce ==
    Returned => \A i \in MeshIndices : Cardinality(MeshReferences(i)) = 1

\* C2: in the node tree the child lists and the parent pointers agree: every
\* child of a node has that node as its parent, and every node but the root
\* is in the child list of its parent.
C2_ParentChildLinksAgree ==
    \A n \in Tree :
        /\ \A k \in DOMAIN nodes[n].mChildren : nodes[nodes[n].mChildren[k]].mParent = n
        /\ n # mRootNode =>
              /\ nodes[n].mParent \in Tree
              /\ \E k \in DOMAIN nodes[nodes[n].mParent].mChildren :
                    nodes[nodes[n].mParent].mChildren[k] = n

\* a returned load with project, site, building, storey and space nodes, a
\* mesh node under the storey node and one under the site node
C2_Witness ==
    /\ Returned
    /\ ~hierarchyThrew
    /\ SpaceID(1, 1, 1, 1) \in Tree
    /\ \E a, b \in Tree :
          /\ a[1] = "leaf" /\ nodes[a].mParent = StoreyID(1, 1, 1)
          /\ b[1] = "leaf" /\ nodes[b].mParent = SiteID(1)

\* C3: whenever no load is running, no model is open: the model a load
\* created was closed by that load, however the load ended.
C3_ModelReleasedOnEveryExit ==
    pc = "idle" => openModels = {}

\* C7: with a project, two meshes whose elements the containment index
\* maps to the same storey id each have one mesh node, and the two mesh
\* nodes are leaves and children of one and the same node.
C7_SameStoreySameParent ==
    (Returned /\ ~hierarchyThrew /\ projectIDs # << >>) =>
        \A i, j \in MeshIndices :
           (i # j /\ StoreyOf(i) # 0 /\ StoreyOf(i) = StoreyOf(j)) =>
              /\ Cardinality(MeshNodesOf(i)) = 1
              /\ \A a \in MeshNodesOf(i), b \in MeshNodesOf(j) :
                    /\ nodes[a].mParent = nodes[b].mParent
                    /\ \E k \in DOMAIN nodes[nodes[a].mParent].mChildren :
                          nodes[nodes[a].mParent].mChildren[k] = a
                    /\ nodes[a].mChildren = << >>

\* C8: after a load in which an exception left the hierarchy construction,
\* the root references every mesh index and no mesh index is referenced more
\* than once in the tree.
C8_FallbackReferencesEachMeshOnce ==
    (Returned /\ hierarchyThrew) =>
        /\ nodes[mRootNode].mMeshes = [i \in 1..NumMeshes |-> i - 1]
        /\ \A i \in MeshIndices : Cardinality(MeshReferences(i)) <= 1

\* C9: when the entity table has no project, the scene keeps its first root,
\* which is the only node, references the mesh indices 0..mNumMeshes-1 in
\* order and has no children.
C9_NoProjectFlat ==
    (Returned /\ ~hierarchyThrew /\ LinesOfType(lines, IFCPROJECT) = << >>) =>
        /\ mRootNode = SceneRootID
        /\ DOMAIN nodes = {SceneRootID}
        /\ nodes[SceneRootID].mName = <<"IFC_Scene">>
        /\ nodes[SceneRootID].mMeshes = [i \in 1..NumMeshes |-> i - 1]
        /\ nodes[SceneRootID].mChildren = << >>

\* a file with a site, a building and a storey but no project, three meshes
C9_Witness ==
    /\ Returned
    /\ ~hierarchyThrew
    /\ LinesOfType(lines, IFCPROJECT) = << >>
    /\ LinesOfType(lines, IFCBUILDINGSTOREY) # << >>
    /\ nodes[mRootNode].mMeshes = <<0, 1, 2>>

\* the iteration of the element loop that was just made raised an exception
ElementThrew ==
    /\ Len(elemLog') = Len(elemLog) + 1
    /\ elemLog'[Len(elemLog')].threw

C11_FatalFailureLeavesNoScene ==
    /\ [](result = "threw" =>
             /\ pc \in {"idle", "destroyed"}
             /\ mRootNode = Null /\ nodes = EmptyMap
             /\ mMaterials = << >> /\ mMeshes = << >>)
    /\ [][(loads' = loads + 1 /\ result' = "threw") =>
             /\ createdModels' = createdModels
             /\ openModels' = openModels
             /\ currentModelID' = currentModelID]_vars
    /\ [][(pc = "loadfile" /\ pc' = "idle") =>
             /\ result' = "threw"
             /\ currentModelID \notin openModels'
             /\ createdModels' = createdModels]_vars

\* a load whose parser rejected the file, after an earlier load threw on an
\* unreadable file
C11_Witness ==
    /\ result = "threw"
    /\ loads = 2
    /\ createdModels = <<1>>
    /\ openModels = {}
    /\ currentModelID = 1

\* ------------------------------------------------------------------------
\* Specification of CanRead alone
\* ------------------------------------------------------------------------
MaxHeaderPieces == 2

\* the signature token CanRead searches the file header for
SignatureToken == <<"ISO-10303-21">>

RECURSIVE LastDot(_, _)
\* position of the last "." of a file name at or before position i, 0 if none
LastDot(pFile, i) ==
    IF i = 0 THEN 0
    ELSE IF pFile[i] = "." THEN i
    ELSE LastDot(pFile, i - 1)

\* BaseImporter::GetExtension: what follows the last dot of the file name,
\* the empty string when the name has no dot
GetExtension(pFile) ==
    IF LastDot(pFile, Len(pFile)) = 0 THEN << >>
    ELSE SubSeq(pFile, LastDot(pFile, Len(pFile)) + 1, Len(pFile))

\* BaseImporter::SearchFileHeaderForToken with the one token of CanRead
SearchFileHeaderForToken(header) == Contains(header, SignatureToken)

\* variant of CanRead that searches the header whether or not the caller
\* asked for a signature check
CanReadAlwaysSearches(pFile, header, pIOHandler, checkSig) ==
    IF GetExtension(pFile) = <<"ifc">> THEN TRUE
    ELSE SearchFileHeaderForToken(header)

\* IFCImporter::CanRead; pIOHandler says whether the handler is non-null
CanRead(pFile, header, pIOHandler, checkSig) ==
    IF GetExtension(pFile) = <<"ifc">> THEN TRUE
    ELSE IF checkSig /\ pIOHandler THEN SearchFileHeaderForToken(header)
    ELSE FALSE

\* file names and file headers presented to CanRead
FileNames ==
    { <<"model", ".", "ifc">>, <<"model", ".", "txt">>, <<"model">>, <<"ifc">>,
      <<"model", ".", "ifc", ".", "bak">>, <<"model", ".", "bak", ".", "ifc">> }

HeaderPieces == {"ISO-10303-21", ";", "HEADER", "This is not an IFC file"}

FileHeaders == SeqsUpTo(HeaderPieces, MaxHeaderPieces)

InitCanRead ==
    /\ InitImporter
    /\ decoded = NoDecode
    /\ colorCalls = << >>
    /\ split = NoSplit
    /\ canRead \in {[done |-> FALSE, pFile |-> f, header |-> h, pIOHandler |-> io,
                     checkSig |-> sig] :
                       f \in FileNames, h \in FileHeaders, io \in BOOLEAN, sig \in BOOLEAN}
    /\ containment = NoContainment

CanReadCall ==
    /\ ~canRead.done
    /\ canRead' = [done |-> TRUE, pFile |-> canRead.pFile, header |-> canRead.header,
                   pIOHandler |-> canRead.pIOHandler, checkSig |-> canRead.checkSig,
                   result |-> CanRead(canRead.pFile, canRead.header, canRead.pIOHandler,
                                      canRead.checkSig)]
    /\ UNCHANGED << pc, importerVars, sceneVars, geometryVars, hierarchyVars,
                    decoded, colorCalls, split, containment >>

NextCanRead == CanReadCall

SpecCanRead == InitCanRead /\ [][NextCanRead]_vars

\* the file name of the call ends in the extension ifc
HasIfcExtension ==
    /\ Len(canRead.pFile) >= 2
    /\ canRead.pFile[Len(canRead.pFile)] = "ifc"
    /\ canRead.pFile[Len(canRead.pFile) - 1] = "."

\* the header of the call holds the signature token
HeaderHasToken == \E i \in DOMAIN canRead.header : canRead.header[i] = "ISO-10303-21"

C13_MaterialIndexValid ==
    Returned =>
        \A i \in DOMAIN mMeshes :
            /\ mMeshes[i].mMaterialIndex \in Nat
            /\ mMeshes[i].mMaterialIndex < Len(mMaterials)

\* a returned load in which IFC_Default was inserted and a mesh carries the
\* shifted index of the last material
C13_Witness ==
    /\ Returned
    /\ needsDefaultMaterial
    /\ Len(mMaterials) = 3
    /\ mMaterials[1].name = <<"IFC_Default">>
    /\ \E i \in DOMAIN mMeshes : mMeshes[i].mMaterialIndex = 2
    /\ \E i \in DOMAIN mMeshes : mMeshes[i].mMaterialIndex = 0

\* ------------------------------------------------------------------------
\* Mesh nodes of the spatial hierarchy
\* ------------------------------------------------------------------------
\* the element a scene mesh was built from, read off the mesh name: the
\* first element is the one with the Name Wand, the meshes of the second
\* are named Mesh <expressID>
OwnerOfMesh(i) ==
    IF mMeshes[i + 1].mName[1] = "Wand" THEN ElementID(1) ELSE ElementID(2)

\* the load returned with the spatial hierarchy built and no exception
SpatialHierarchyBuilt == Returned /\ ~hierarchyThrew /\ projectIDs # << >>

\* C14: in the spatial hierarchy every node that references a mesh is a
\* leaf, references exactly one mesh, and carries the entries IFC.ExpressID
\* and IFC.Type, holding the expressID and the type name of the element the
\* mesh was built from (also for the meshes of a split).
C14_MeshNodesAreLeavesWithProvenance ==
    SpatialHierarchyBuilt =>
        \A n \in Tree :
            nodes[n].mMeshes # << >> =>
                /\ nodes[n].mChildren = << >>
                /\ Len(nodes[n].mMeshes) = 1
                /\ nodes[n].mMetaData =
                      << <<"IFC.ExpressID", OwnerOfMesh(nodes[n].mMeshes[1])>>,
                         <<"IFC.Type", <<"IFCWALL">>>> >>

\* the same without the requirement that the node is a leaf
C14_MeshNodesCarryProvenance ==
    SpatialHierarchyBuilt =>
        \A n \in Tree :
            nodes[n].mMeshes # << >> =>
                /\ Len(nodes[n].mMeshes) = 1
                /\ nodes[n].mMetaData =
                      << <<"IFC.ExpressID", OwnerOfMesh(nodes[n].mMeshes[1])>>,
                         <<"IFC.Type", <<"IFCWALL">>>> >>

\* a spatial hierarchy with the two meshes of a split element and the mesh
\* of a second element
C14_Witness ==
    /\ SpatialHierarchyBuilt
    /\ NumMeshes = 3
    /\ OwnerOfMesh(0) = ElementID(1) /\ OwnerOfMesh(1) = ElementID(1)
    /\ OwnerOfMesh(2) = ElementID(2)
    /\ \A i \in MeshIndices : Cardinality(MeshNodesOf(i)) = 1

\* ------------------------------------------------------------------------
\* Names exposed on nodes and materials
\* ------------------------------------------------------------------------
\* the encoded escape sequence \S\
EscapeSequence == <<BS, "S", BS>>

\* C15: after a load no node name of the tree and no material name holds
\* the escape sequence \S\, whatever character follows it in the source
\* field.
C15_NoEscapeSequenceInNames ==
    Returned =>
        /\ \A n \in Tree : ~Contains(nodes[n].mName, EscapeSequence)
        /\ \A i \in DOMAIN mMaterials : ~Contains(mMaterials[i].name, EscapeSequence)

\* the same for the names whose escapes are all in the table of the decoder:
\* the site node, whose Name field holds \S\d
C15_TableEscapesDecoded ==
    Returned =>
        \A n \in Tree : n[1] = "site" => ~Contains(nodes[n].mName, EscapeSequence)

\* a returned load whose tree holds a site node named from a field with \S\d
\* and a building node named from a field with \S\i
C15_Witness ==
    /\ Returned
    /\ \E n \in Tree : n[1] = "site" /\ nodes[n].mName = <<"Gel", "xC3", "xA4", "nde">>
    /\ \E n \in Tree : n[1] = "building" /\ Contains(nodes[n].mName, <<"Caf">>)

\* ------------------------------------------------------------------------
\* Order of the storey nodes
\* ------------------------------------------------------------------------
\* the storey lines of the entity table the hierarchy was built from
StoreyLines == LinesOfType(lines, IFCBUILDINGSTOREY)

\* the Elevation of the storey entity a storey node was created from
ElevationOfNode(n) == StoreyLines[n[4]].elevation

\* C16: the storey nodes under a building node are ordered by elevation: of
\* two storey children of one building the one with the lower elevation has
\* the smaller child index.
C16_StoreysOrderedByElevation ==
    SpatialHierarchyBuilt =>
        \A b \in Tree :
            b[1] = "building" =>
                \A x, y \in DOMAIN nodes[b].mChildren :
                    LET sx == nodes[b].mChildren[x]
                        sy == nodes[b].mChildren[y]
                    IN (sx[1] = "storey" /\ sy[1] = "storey"
                        /\ ElevationOfNode(sx) < ElevationOfNode(sy)) => x < y

\* a building node with two storey children, the first created from the
\* storey with the higher elevation
C16_Witness ==
    /\ SpatialHierarchyBuilt
    /\ \E b \in Tree :
          /\ b[1] = "building"
          /\ Len(nodes[b].mChildren) >= 2
          /\ nodes[b].mChildren[1][1] = "storey" /\ nodes[b].mChildren[2][1] = "storey"
          /\ ElevationOfNode(nodes[b].mChildren[1]) = 3
          /\ ElevationOfNode(nodes[b].mChildren[2]) = 0

\* ------------------------------------------------------------------------
\* Vertex and face buffers of the scene meshes
\* ------------------------------------------------------------------------
\* C17: every mesh of the final scene has at least one vertex and one face,
\* every face has exactly three indices, and every face index is smaller
\* than the vertex count of its mesh, also for a mesh merged from several
\* placed geometries and for the meshes of a split.
C17_MeshBuffersWellFormed ==
    Returned =>
        \A i \in DOMAIN mMeshes :
            /\ Len(mMeshes[i].mVertices) >= 1
            /\ Len(mMeshes[i].mFaces) >= 1
            /\ \A f \in DOMAIN mMeshes[i].mFaces :
                  /\ Len(mMeshes[i].mFaces[f]) = 3
                  /\ \A c \in 1..3 :
                        mMeshes[i].mFaces[f][c] \in 0..(Len(mMeshes[i].mVertices) - 1)

\* a returned scene with a mesh merged from two placed geometries, whose
\* last face uses the vertices of the second geometry, and a second mesh
C17_Witness ==
    /\ Returned
    /\ NumMeshes = 2
    /\ Len(mMeshes[1].mVertices) = 7
    /\ mMeshes[1].mFaces = << <<0, 1, 2>>, <<3, 4, 5>>, <<3, 5, 6>> >>

\* ------------------------------------------------------------------------
\* The fallback material slot
\* ------------------------------------------------------------------------
\* the scene holds a material named IFC_Default
HasDefaultSlot == \E i \in DOMAIN mMaterials : mMaterials[i].name = <<"IFC_Default">>

\* no authored material and no surface style was extracted into the scene
NoExtractedMaterial == \A i \in DOMAIN mMaterials : mMaterials[i].source = "color"

\* C18: after a load that returns normally the scene has at least one
\* material slot; when no authored material and no surface style was
\* extracted it holds the fallback slot IFC_Default, also when no element
\* produced a mesh.
C18_AtLeastDefaultSlot ==
    Returned =>
        /\ Len(mMaterials) >= 1
        /\ NoExtractedMaterial => HasDefaultSlot

\* a returned load without any material: nothing was extracted and no
\* element produced a mesh
C18_Witness ==
    /\ Returned
    /\ mMaterials = << >>
    /\ NumMeshes = 0
    /\ materialIDToIndex = EmptyMap

\* ------------------------------------------------------------------------
\* C19: the per-load maps hold entries of the running load only
\* ------------------------------------------------------------------------
\* the load is past the clear() of ExtractGeometry
PastMetadataClear == (result = "running" /\ pc \in {"geometry", "scene", "assign"}) \/ Returned

\* the load is past ExtractMaterials
PastMaterials == (result = "running" /\ pc \in {"geometry0", "geometry", "scene", "assign"}) \/ Returned

\* the load is past PopulateSpatialContainmentMap
PastContainment == (result = "running" /\ pc \in {"materials", "geometry0", "geometry", "scene", "assign"}) \/ Returned

\* how far the slots recorded during the load have moved: one up once
\* IFC_Default has been put in front
DefaultShift == IF pc \in {"scene", "assign", "idle"} /\ needsDefaultMaterial THEN 1 ELSE 0

\* the express ids of the elements the running load has processed
ProcessedIDs == {elemLog[k].expressID : k \in DOMAIN elemLog}

HasResolvedMaterial(mesh, mats) ==
    /\ mesh.mMaterialIndex < Len(mats)
    /\ LET mat == mats[mesh.mMaterialIndex + 1]
       IN \/ mat.source \in {"ifc", "style"}
          \/ mat.source = "color" /\ mat.name # <<"IFC_Default">>

\* some mesh of the loop has neither an authored nor a colour slot
SomeMeshLacksMaterial == \E i \in DOMAIN meshes : ~HasResolvedMaterial(meshes[i], mMaterials)

\* the step of ExtractGeometry after the element loop
AfterElementLoop == pc = "geometry" /\ pc' = "scene"

\* C20: geometry extraction inserts the default slot IFC_Default only if at
\* least one mesh has no resolved material (neither an authored-material slot
\* nor a colour-key slot was assigned to it); when no mesh lacks a material
\* the material array is left as it is; an inserted slot is at index 0.
C20_DefaultOnlyForUnresolvedMesh ==
    [][AfterElementLoop =>
          /\ (mMaterials' # mMaterials) => SomeMeshLacksMaterial
          /\ ~SomeMeshLacksMaterial => mMaterials' = mMaterials
          /\ (mMaterials' # mMaterials) => mMaterials'[1].name = <<"IFC_Default">>]_vars

\* the part of C20 about the position: whatever ExtractGeometry inserts is
\* IFC_Default at index 0, in front of the unchanged earlier slots
C20_InsertedSlotIsFirst ==
    [][(AfterElementLoop /\ mMaterials' # mMaterials) =>
          /\ mMaterials'[1] = CreateMaterialFromColor(255, <<"IFC_Default">>)
          /\ Tail(mMaterials') = mMaterials]_vars

\* a returned load in which IFC_Default was inserted although the only mesh
\* had been given the slot of an authored material, now at index 1
C20_Witness ==
    /\ Returned
    /\ needsDefaultMaterial
    /\ NumMeshes = 1
    /\ mMeshes[1].mMaterialIndex = 0
    /\ Len(mMaterials) = 2
    /\ mMaterials[1].name = <<"IFC_Default">>
    /\ mMaterials[2].source = "ifc"

\* ------------------------------------------------------------------------
\* C21: the insertion of IFC_Default and the materials of the meshes
\* ------------------------------------------------------------------------
\* the step of ExtractGeometry after the element loop puts IFC_Default in front
DefaultInserted == AfterElementLoop /\ mMaterials' # mMaterials

\* C21: inserting the default slot at index 0 preserves every mesh's
\* material: a mesh that had the authored or colour slot k (k = 0 included)
\* has index k + 1 after the insertion, and that index denotes the material
\* that slot k denoted before.
C21_InsertionPreservesMeshMaterial ==
    [][DefaultInserted =>
          \A i \in DOMAIN meshes :
             HasResolvedMaterial(meshes[i], mMaterials) =>
                /\ meshes'[i].mMaterialIndex = meshes[i].mMaterialIndex + 1
                /\ mMaterials'[meshes'[i].mMaterialIndex + 1]
                      = mMaterials[meshes[i].mMaterialIndex + 1]]_vars

\* the part of C21 that holds: the meshes with a slot above 0 keep their
\* material across the insertion
C21_NonZeroSlotsPreserved ==
    [][DefaultInserted =>
          \A i \in DOMAIN meshes :
             meshes[i].mMaterialIndex > 0 =>
                /\ meshes'[i].mMaterialIndex = meshes[i].mMaterialIndex + 1
                /\ mMaterials'[meshes'[i].mMaterialIndex + 1]
                      = mMaterials[meshes[i].mMaterialIndex + 1]]_vars

\* a returned load with two meshes of two colour slots: after the insertion
\* the first mesh is left on slot 0, IFC_Default, and its colour material at
\* slot 1 is used by no mesh
C21_Witness ==
    /\ Returned
    /\ needsDefaultMaterial
    /\ NumMeshes = 2
    /\ Len(mMaterials) = 3
    /\ mMaterials[1].name = <<"IFC_Default">>
    /\ mMaterials[2].name # <<"IFC_Default">>
    /\ mMaterials[2].source = "color"
    /\ mMeshes[1].mMaterialIndex = 0
    /\ mMeshes[2].mMaterialIndex = 2

\* ------------------------------------------------------------------------
\* C22: meshes of a storey hang below the node of that storey
\* ------------------------------------------------------------------------
\* the nodes of the tree created from the IFCBUILDINGSTOREY entity storeyID
NodesOfStorey(storeyID) ==
    {n \in Tree : n[1] = "storey" /\ StoreyLines[n[4]].id = storeyID}

\* C22: for every mesh whose element the containment index maps to storey S,
\* if a node was created for the storey entity with expressID S, the mesh
\* node is a child of that node: not of another storey's node and not of
\* the root.
C22_MeshBelowItsStoreyNode ==
    SpatialHierarchyBuilt =>
       \A i \in MeshIndices :
          (StoreyOf(i) # 0 /\ NodesOfStorey(StoreyOf(i)) # {}) =>
             \A n \in MeshNodesOf(i) : nodes[n].mParent \in NodesOfStorey(StoreyOf(i))

\* a returned load with nodes for the storeys 596 and 597 in which the mesh
\* of an element of storey 597 hangs below the node of storey 596
C22_Witness ==
    /\ SpatialHierarchyBuilt
    /\ NodesOfStorey(596) # {}
    /\ NodesOfStorey(597) # {}
    /\ \E i \in MeshIndices :
          /\ StoreyOf(i) = 597
          /\ \E n \in MeshNodesOf(i) : nodes[n].mParent \in NodesOfStorey(596)

\* ------------------------------------------------------------------------
\* C23: the fallback parent of the meshes without a containment mapping
\* ------------------------------------------------------------------------
\* the site nodes directly below the root that have a building node as child
SitesWithBuildings ==
    {c \in Range(nodes[mRootNode].mChildren) :
        c[1] = "site" /\ \E b \in Range(nodes[c].mChildren) : b[1] = "building"}

\* the parents the stated order allows
AllowedFallbackParents ==
    IF SitesWithBuildings # {} THEN SitesWithBuildings
    ELSE IF nodes[mRootNode].mChildren # << >> THEN {nodes[mRootNode].mChildren[1]}
    ELSE {mRootNode}

\* the step that attaches the unassigned meshes and returns
UnassignedAttached ==
    /\ pc = "assign"
    /\ unassignedMeshes # << >>
    /\ pc' = "idle"
    /\ result' = "returned"

\* C23: the meshes whose element has no containment mapping are attached
\* below a site node (a child of the project root) that has building
\* children, if there is one; else below the first child of the project
\* root; else below the project root.  The parent is never a node of
\* building level or deeper.
C23_FallbackParentOrder ==
    [][UnassignedAttached =>
          \A n \in DOMAIN nodes' \ DOMAIN nodes :
             /\ nodes'[n].mParent \in AllowedFallbackParents
             /\ nodes'[n].mParent[1] \notin {"building", "storey", "space"}]_vars

\* a returned load in which the mesh of an element without containment
\* mapping hangs below a building node, while the site above it is a child
\* of the root
C23_Witness ==
    /\ SpatialHierarchyBuilt
    /\ \E i \in MeshIndices :
          /\ StoreyOf(i) = 0
          /\ \E n \in MeshNodesOf(i) :
                /\ nodes[n].mParent[1] = "building"
                /\ nodes[nodes[n].mParent].mParent \in Range(nodes[mRootNode].mChildren)

\* ------------------------------------------------------------------------
\* PopulateSpatialContainmentMap on its own: every relation list up to
\* MaxRelations relations over two storeys and two elements
\* ------------------------------------------------------------------------
MaxRelations == 2

ContainmentStructures == {596, 597}

RelatedElementSets == {<<11>>, <<12>>, <<11, 12>>, <<12, 11>>}

\* a relation that reads well, one whose relating structure cannot be read,
\* and one whose element reference at position k cannot be read
ContainmentRelations ==
    {Relation(s, r, "none", 0) : s \in ContainmentStructures, r \in RelatedElementSets}
    \cup {Relation(s, r, "structure", 0) : s \in ContainmentStructures, r \in RelatedElementSets}
    \cup UNION {{Relation(s, r, "element", k) : k \in 1..Len(r)} :
                   s \in ContainmentStructures, r \in RelatedElementSets}

InitContainment ==
    /\ InitImporter
    /\ decoded = NoDecode
    /\ colorCalls = << >>
    /\ split = NoSplit
    /\ canRead = NoCanRead
    /\ containment \in {[done |-> FALSE, rels |-> rels, apiThrows |-> t] :
                           rels \in SeqsUpTo(ContainmentRelations, MaxRelations),
                           t \in BOOLEAN}
    /\ containment.apiThrows => containment.rels = << >>

ContainmentCall ==
    /\ ~containment.done
    /\ containment' = [done |-> TRUE, rels |-> containment.rels,
                       apiThrows |-> containment.apiThrows,
                       map |-> PopulateSpatialContainmentMap(containment.rels,
                                                             containment.apiThrows)]
    /\ UNCHANGED << pc, importerVars, sceneVars, geometryVars, hierarchyVars,
                    decoded, colorCalls, split, canRead >>

NextContainment == ContainmentCall

SpecContainment == InitContainment /\ [][NextContainment]_vars

\* ------------------------------------------------------------------------
\* C24: last writer wins among the well-formed relations
\* ------------------------------------------------------------------------
WellFormed(rel) == rel.bad = "none"

\* the positions of the well-formed relations of the call that list element e
WellFormedWith(e) ==
    {j \in DOMAIN containment.rels :
        WellFormed(containment.rels[j]) /\ e \in Range(containment.rels[j].relatedElements)}

\* the element ids that occur in some relation of the call
RelatedIDs == UNION {Range(containment.rels[j].relatedElements) : j \in DOMAIN containment.rels}

LastOf(S) == CHOOSE j \in S : \A h \in S : h <= j

\* C24: PopulateSpatialContainmentMap maps each element id that occurs in at
\* least one well-formed containment relation to the relating structure of
\* the last such relation in enumeration order, and holds no entry for an
\* element id that occurs in no relation.
C24_LastWellFormedRelationWins ==
    containment.done =>
       /\ \A e \in RelatedIDs :
             WellFormedWith(e) # {} =>
                /\ e \in DOMAIN containment.map
                /\ containment.map[e]
                      = containment.rels[LastOf(WellFormedWith(e))].relatingStructure
       /\ DOMAIN containment.map \subseteq RelatedIDs

\* the same when every relation of the call is well-formed
C24_LastRelationWinsWhenAllWellFormed ==
    (containment.done /\ \A j \in DOMAIN containment.rels : WellFormed(containment.rels[j])) =>
       /\ DOMAIN containment.map = RelatedIDs
       /\ \A e \in RelatedIDs :
             containment.map[e]
                = containment.rels[LastOf(WellFormedWith(e))].relatingStructure

\* a call whose first relation is well-formed and puts 11 and 12 into storey
\* 596, and whose second relation, for storey 597, fails at its second
\* element after 11 was read: 11 ends up in 597
C24_Witness ==
    /\ containment.done
    /\ containment.rels = << Relation(596, <<11, 12>>, "none", 0),
                             Relation(597, <<11, 12>>, "element", 2) >>
    /\ containment.map[11] = 597
    /\ containment.map[12] = 596

\* ------------------------------------------------------------------------
\* C25: a malformed relation is skipped as a whole
\* ------------------------------------------------------------------------
\* the relations of the call that read well, in their order
WellFormedRelations == SelectSeq(containment.rels, WellFormed)

\* C25: a malformed containment relation is skipped as a whole and never
\* aborts the index build: a relation whose relating structure or any of
\* whose element references cannot be read adds and changes no entry, and
\* every other relation is processed; the map is the map of the call's
\* well-formed relations alone.
C25_MalformedRelationSkippedWhole ==
    (containment.done /\ ~containment.apiThrows) =>
        containment.map = PopulateSpatialContainmentMap(WellFormedRelations, FALSE)

\* the part of C25 that holds: the build is never aborted, every element of
\* a well-formed relation has an entry whatever precedes that relation, and a
\* relation whose relating structure cannot be read leaves no entry
C25_BuildNeverAborted ==
    (containment.done /\ ~containment.apiThrows) =>
        /\ \A e \in RelatedIDs : WellFormedWith(e) # {} => e \in DOMAIN containment.map
        /\ (\A j \in DOMAIN containment.rels : containment.rels[j].bad \in {"none", "structure"})
              => containment.map = PopulateSpatialContainmentMap(WellFormedRelations, FALSE)

\* a call with the single relation of storey 596 that fails at its second
\* element: the entry of the first element stays in the map
C25_Witness ==
    /\ containment.done
    /\ containment.rels = << Relation(596, <<11, 12>>, "element", 2) >>
    /\ containment.map = [e \in {11} |-> 596]

\* ------------------------------------------------------------------------
\* C26: the names of the spatial nodes
\* ------------------------------------------------------------------------
\* the nodes of the tree created from spatial entities
SpatialNodesOfTree == {n \in Tree : n[1] \in {"project", "site", "building", "storey", "space"}}

\* the entity a spatial node was created from
EntityOfNode(n) ==
    CASE n[1] = "project" -> LinesOfType(lines, IFCPROJECT)[1]
      [] n[1] = "site" -> LinesOfType(lines, IFCSITE)[n[2]]
      [] n[1] = "building" -> LinesOfType(lines, IFCBUILDING)[n[3]]
      [] n[1] = "storey" -> LinesOfType(lines, IFCBUILDINGSTOREY)[n[4]]
      [] OTHER -> LinesOfType(lines, IFCSPACE)[n[5]]

\* the type label of the fallback name of a spatial node
TypeLabelOf(n) ==
    CASE n[1] = "project" -> <<"IFC_", "Project">>
      [] n[1] = "site" -> <<"IFC_", "Site">>
      [] n[1] = "building" -> <<"IFC_", "Building">>
      [] n[1] = "storey" -> <<"IFC_", "Building", "Storey">>
      [] OTHER -> <<"IFC_", "Space">>

\* the name field of the entity of a node: LongName for a space, else Name
NameFieldOf(n) == IF n[1] = "space" THEN EntityOfNode(n).longName ELSE EntityOfNode(n).name

\* the name stated for a node: the decoded name field, or the fallback
\* <TypeLabel>_<entityType>_<expressID> when the field is empty
StatedNameOf(n) ==
    IF NameFieldOf(n) # << >> THEN DecodeIFCString(NameFieldOf(n))
    ELSE TypeLabelOf(n) \o <<"_", EntityOfNode(n).type, "_">> \o to_string(EntityOfNode(n).id)

\* C26: in the final tree the name of each Project, Site, Building, Storey
\* and Space node is the decoded Name field of its entity (LongName for a
\* Space); when that field is empty the name is the fallback
\* <TypeLabel>_<entityType>_<expressID>.
C26_SpatialNodeNames ==
    SpatialHierarchyBuilt => \A n \in SpatialNodesOfTree : nodes[n].mName = StatedNameOf(n)

\* the part of C26 that holds: a node whose entity has a name field that is
\* not empty, or has no GlobalId, has the stated name
C26_NamesOfNamedEntities ==
    SpatialHierarchyBuilt =>
       \A n \in SpatialNodesOfTree :
          (NameFieldOf(n) # << >> \/ EntityOfNode(n).globalId = << >>)
             => nodes[n].mName = StatedNameOf(n)

\* a returned tree with the node of a storey that has a GlobalId and no Name:
\* the node is named IFC_<entityType>_<first 8 of GlobalId>
C26_Witness ==
    /\ SpatialHierarchyBuilt
    /\ \E n \in SpatialNodesOfTree :
          /\ n[1] = "storey"
          /\ NameFieldOf(n) = << >>
          /\ EntityOfNode(n).globalId # << >>
          /\ nodes[n].mName = <<"IFC_", IFCBUILDINGSTOREY, "_">>
                                 \o SubSeq(EntityOfNode(n).globalId, 1, 8)

\* ------------------------------------------------------------------------
\* C27: one node per spatial entity
\* ------------------------------------------------------------------------
\* position in a node id of the index of the entity among those of its type
IndexPosition(kind) ==
    CASE kind = "site" -> 2 [] kind = "building" -> 3 [] kind = "storey" -> 4 [] OTHER -> 5

TypeOfKind(kind) ==
    CASE kind = "site" -> IFCSITE [] kind = "building" -> IFCBUILDING
      [] kind = "storey" -> IFCBUILDINGSTOREY [] OTHER -> IFCSPACE

\* the nodes of the tree created from the i-th entity of a kind
NodesOfEntity(kind, i) == {n \in Tree : n[1] = kind /\ n[IndexPosition(kind)] = i}

SpatialKinds == {"site", "building", "storey", "space"}

\* C27: when a Project entity exists, the final tree holds exactly one node
\* for every Site, Building, Storey and Space entity of the entity table and
\* one for the first Project, whatever the number of entities of each type.
C27_OneNodePerEntity ==
    SpatialHierarchyBuilt =>
       /\ Cardinality({n \in Tree : n[1] = "project"}) = 1
       /\ \A kind \in SpatialKinds :
             \A i \in DOMAIN LinesOfType(lines, TypeOfKind(kind)) :
                Cardinality(NodesOfEntity(kind, i)) = 1

\* the part of C27 that holds: the entities of a type have one node each
\* when every type above it has exactly one entity
C27_OneNodeBelowSingleAncestors ==
    SpatialHierarchyBuilt =>
       /\ Cardinality({n \in Tree : n[1] = "project"}) = 1
       /\ \A i \in DOMAIN LinesOfType(lines, IFCSITE) : Cardinality(NodesOfEntity("site", i)) = 1
       /\ Len(LinesOfType(lines, IFCSITE)) = 1 =>
             \A i \in DOMAIN LinesOfType(lines, IFCBUILDING) :
                Cardinality(NodesOfEntity("building", i)) = 1
       /\ (Len(LinesOfType(lines, IFCSITE)) = 1 /\ Len(LinesOfType(lines, IFCBUILDING)) = 1) =>
             \A i \in DOMAIN LinesOfType(lines, IFCBUILDINGSTOREY) :
                Cardinality(NodesOfEntity("storey", i)) = 1

\* a returned tree of a file with two sites and one building: the building
\* has a node below each site
C27_Witness ==
    /\ SpatialHierarchyBuilt
    /\ Len(LinesOfType(lines, IFCSITE)) = 2
    /\ Len(LinesOfType(lines, IFCBUILDING)) = 1
    /\ Cardinality(NodesOfEntity("building", 1)) = 2

\* ------------------------------------------------------------------------
\* C28: the names of the meshes of a multi-material element
\* ------------------------------------------------------------------------
\* mesh i is one of several meshes of its element
IsSplitMesh(i) ==
    \E j \in MeshIndices :
        j # i /\ meshToIFCMetadata[j].expressID = meshToIFCMetadata[i].expressID

\* the base of the name of a split mesh: the element name, or Mesh <expressID>
BaseNameOf(i) ==
    IF meshToIFCMetadata[i].elementName # << >> THEN meshToIFCMetadata[i].elementName
    ELSE MeshPrefix \o to_string(meshToIFCMetadata[i].expressID)

\* C28: every mesh of a multi-material element in the final scene is named
\* <base>_Mat<k>, where <base> is the element name (Mesh <expressID> when
\* the element has no name) and k is the material slot index the mesh has
\* in the final scene, also when IFC_Default was inserted at index 0 after
\* the mesh was named.
C28_SplitMeshNameCarriesSlot ==
    Returned =>
       \A i \in MeshIndices :
          IsSplitMesh(i) =>
             mMeshes[i + 1].mName
                = BaseNameOf(i) \o MatSuffix \o to_string(mMeshes[i + 1].mMaterialIndex)

\* the part of C28 that holds: the name carries the slot when no default
\* slot was inserted, and the base of the name in every case
C28_SplitMeshNameWithoutInsertion ==
    Returned =>
       \A i \in MeshIndices :
          IsSplitMesh(i) =>
             /\ SubSeq(mMeshes[i + 1].mName, 1, Len(BaseNameOf(i)) + 1)
                   = BaseNameOf(i) \o MatSuffix
             /\ ~needsDefaultMaterial =>
                   mMeshes[i + 1].mName
                      = BaseNameOf(i) \o MatSuffix \o to_string(mMeshes[i + 1].mMaterialIndex)

\* a returned scene with the two meshes of the element Wand split over two
\* colour slots: after the insertion of IFC_Default the mesh named Wand_Mat1
\* has slot 2
C28_Witness ==
    /\ Returned
    /\ needsDefaultMaterial
    /\ NumMeshes = 2
    /\ IsSplitMesh(0)
    /\ \E i \in MeshIndices :
          /\ mMeshes[i + 1].mName = <<"Wand">> \o MatSuffix \o to_string(1)
          /\ mMeshes[i + 1].mMaterialIndex = 2

\* ------------------------------------------------------------------------
\* C29: authored material first, colour only without a relation
\* ------------------------------------------------------------------------
\* the element loop processes el in this step and no exception is raised
ElementProcessed(el) ==
    /\ pc = "geometry"
    /\ \E order \in SplitOrders(el) : ElementStep(el, order, NoThrow)

\* the meshes the step has pushed
PushedMeshes == SubSeq(meshes', Len(meshes) + 1, Len(meshes'))

C29_ColourUsedDespiteRelation ==
    /\ pc = "geometry"
    /\ elements = 1
    /\ materialIDToIndex = EmptyMap
    /\ Len(meshes) = 2
    /\ DOMAIN colorMaterialCache # {}
    /\ \E el \in MainElements(1) :
          /\ el.rel = <<7>>
          /\ Len(el.flatMesh.geometries) = 2
          /\ ProcessElement([meshes |-> << >>, meta |-> EmptyMap, cache |-> EmptyCache,
                             mats |-> << >>, needsDefault |-> FALSE, threw |-> FALSE],
                            el, materialIDToIndex, <<0, 1>>, NoThrow).meshes = meshes

\* ------------------------------------------------------------------------
\* C30: the vertex array of a split mesh
\* ------------------------------------------------------------------------
\* the merged faces of the material slot of the split mesh m, in their order
PartitionFaces(m) ==
    SelectSeq(split.faces,
              LAMBDA f : \E i \in DOMAIN split.faces :
                            split.faces[i] = f /\ split.materialIndices[i] = m.mMaterialIndex)

\* the face corners of a face list, in the order the faces are walked
Corners(fs) == Flatten(fs)

\* the index at every corner is at most the number of different indices
\* before it: the indices are handed out 0, 1, 2, ... in order of first use
InFirstUseOrder(corners) ==
    \A p \in DOMAIN corners :
        corners[p] <= Cardinality({corners[q] : q \in 1..(p - 1)})

\* the element was split: it has more than one mesh
WasSplit == split.phase = "out" /\ Len(split.out) > 1

\* C30: each split mesh has its own vertex array holding exactly the
\* vertices its faces use: every vertex of the mesh is referenced by one of
\* its faces, each original vertex the partition uses appears exactly once
\* (two corners have the same local index exactly when they had the same
\* original index, and the local vertex is the original one), and the face
\* indices are the local indices 0..n-1 handed out in order of first use.
C30_SplitMeshOwnsItsVertices ==
    WasSplit =>
       \A k \in DOMAIN split.out :
          LET m == split.out[k]
              local == Corners(m.mFaces)
              original == Corners(PartitionFaces(m))
              n == Len(m.mVertices)
          IN /\ Len(local) = Len(original)
             /\ Range(local) = 0..(n - 1)
             /\ n = Cardinality(Range(original))
             /\ InFirstUseOrder(local)
             /\ \A p, q \in DOMAIN local : (local[p] = local[q]) <=> (original[p] = original[q])
             /\ \A p \in DOMAIN local : m.mVertices[local[p] + 1] = split.vertices[original[p] + 1]

\* a split whose one part is the quad: two triangles that share two of the
\* merged vertices 3..6, renumbered 0..3, the shared ones used twice
C30_Witness ==
    /\ WasSplit
    /\ \E k \in DOMAIN split.out :
          /\ Corners(PartitionFaces(split.out[k])) = <<3, 4, 5, 3, 5, 6>>
          /\ Corners(split.out[k].mFaces) = <<0, 1, 2, 0, 2, 3>>
          /\ Len(split.out[k].mVertices) = 4

====
